---- MODULE Spec2Model ----
(***************************************************************************)
(* A model of suite_report.py: the translation of source locations between *)
(* the shared (SRS) and the mirror namespace, the construction of a        *)
(* Project, the task table, the code-owner approvals and the top-level     *)
(* flow of main.                                                           *)
(*                                                                         *)
(* Strings whose characters the code inspects are sequences of one-        *)
(* character strings; a regular expression built from a table entry is the *)
(* same sequence read as a pattern, in which "." matches any character.    *)
(***************************************************************************)
EXTENDS Integers, Sequences, FiniteSets, TLC

VARIABLES
    \* JobSources.urls and the location being converted
    urls, url0, url, ops,
    \* SuiteReport.generate_task_table: its argument, the attributes it
    \* reads, and what it builds
    data, verbosity, only_common_groups, sort_by_name,
    status_counts, hidden_counts, task_table, failed_configs, hidden, tpc,
    \* SuiteReport.get_code_owners: the changed files and the mirror of the UM
    \* project, the owners dictionary, the section headers of the files it
    \* exports, and what it builds
    bdiff_files, code_owners, repo_mirror, file_headers,
    needed_approvals, approvals_log, opc,
    \* main: what the run finds (the sources in the order of job_sources, what
    \* the repository does for each, an error before the sources are set up,
    \* whether the owners files can be read, the count of uncommitted changes
    \* that project_details returns), the SuiteReport it builds, the
    \* trac_log buffer, the trac.log file, standard output, the exception of
    \* print_report, the exception leaving main, and where main is
    details, source_params, init_error, owners_readable, uncommited_changes,
    job_sources, projects, primary_project,
    trac_log, trac_file, stdout, report_exc, exc, write_outcome, mpc,
    \* Project.get_revisions: the parameters of the project before and after,
    \* what the head revision query gives, the locations it was asked for,
    \* and where the call is
    params0, params, head_revision, head_queries, rpc,
    \* SuiteReport.__init__: the site and the run-groups of the suite, from which
    \* only_common_groups is worked out
    site, groups,
    \* Project.get_altered_files_list: what the branch diff lists, how many of its
    \* attempts fail, the list returned, and where the call is
    diff_listing, diff_failures, bdiff_result, dpc,
    \* Project.get_links: the keyword table, the project's locations, the
    \* answer of loc-layout, the links and queries, the position.
    link_table, link_params, layout, links, lpc,
    \* Project.get_ticket_number: the mirror URL, the answer of fcm log, the
    \* ticket, the log queries, the position.
    ticket_url, log_reply, ticket, log_queries, kpc,
    \* CylcVersion: the layout, the names in the run directory and in log, the
    \* listing of log/config, the path asked for and the outcome.
    cylc_version, cylc_root, cylc_log, cylc_config, cylc_asked, cylc_result,
    \* CylcVersion._cylc8_project_details: the document, the details, the
    \* position.
    vcs_data, vcs_details, vpc,
    \* SuiteReport.generate_owner_dictionary: the mode, the lines of the owners
    \* file, the dictionary, the exception and the position.
    owners_mode, owners_file, owners_table, owners_raised, gpc,
    \* The retries of export_file and get_altered_files_list: the operation, its
    \* input, the attempts and failures so far, the result and the position.
    retry_op, retry_input, retry_attempts, retry_failures, retry_result, ypc,
    \* JobSources.__iadd__: the dictionary held, the one added, the result
    \* and the position.
    merge_main, merge_addon, merged, jpc,
    \* retrigger_nightlies.main: the suites found with their task_states rows,
    \* the failed suites, the options and answers, the suites to restart, the
    \* commands handed to run_command, the count of tasks and the position.
    suites_found, failed_suites, dry_run, run_all, answers, to_restart, commands, total_failed_tasks, nidx, tidx, npc

urlVars == <<urls, url0, url, ops>>

taskVars == <<data, verbosity, only_common_groups, sort_by_name,
              status_counts, hidden_counts, task_table, failed_configs,
              hidden, tpc>>

ownerVars == <<bdiff_files, code_owners, repo_mirror, file_headers,
               needed_approvals, approvals_log, opc>>

mainVars == <<details, source_params, init_error, owners_readable,
              uncommited_changes,
              job_sources, projects, primary_project,
              trac_log, trac_file, stdout, report_exc, exc, write_outcome,
              mpc>>

revVars == <<params0, params, head_revision, head_queries, rpc>>

groupVars == <<site, groups>>

diffVars == <<diff_listing, diff_failures, bdiff_result, dpc>>

linkVars == <<link_table, link_params, layout, links, lpc>>

ticketVars == <<ticket_url, log_reply, ticket, log_queries, kpc>>

cylcVars == <<cylc_version, cylc_root, cylc_log, cylc_config, cylc_asked, cylc_result>>

vcsVars == <<vcs_data, vcs_details, vpc>>

parseVars == <<owners_mode, owners_file, owners_table, owners_raised, gpc>>

retryVars == <<retry_op, retry_input, retry_attempts, retry_failures, retry_result, ypc>>

mergeVars == <<merge_main, merge_addon, merged, jpc>>

nightlyVars == <<suites_found, failed_suites, dry_run, run_all, answers, to_restart, commands, total_failed_tasks, nidx, tidx, npc>>

vars == <<urlVars, taskVars, ownerVars, mainVars, revVars, groupVars, diffVars, linkVars, ticketVars, cylcVars, vcsVars, parseVars, retryVars, mergeVars, nightlyVars>>

\* What the actions of one part of the program leave alone.
restOfUrl == <<taskVars, ownerVars, mainVars, revVars, groupVars, diffVars, linkVars, ticketVars, cylcVars, vcsVars, parseVars, retryVars, mergeVars, nightlyVars>>
restOfTask == <<urlVars, ownerVars, mainVars, revVars, groupVars, diffVars, linkVars, ticketVars, cylcVars, vcsVars, parseVars, retryVars, mergeVars, nightlyVars>>
restOfOwner == <<urlVars, taskVars, mainVars, revVars, groupVars, diffVars, linkVars, ticketVars, cylcVars, vcsVars, parseVars, retryVars, mergeVars, nightlyVars>>
restOfMain == <<urlVars, taskVars, ownerVars, revVars, groupVars, diffVars, linkVars, ticketVars, cylcVars, vcsVars, parseVars, retryVars, mergeVars, nightlyVars>>
restOfRev == <<urlVars, taskVars, ownerVars, mainVars, groupVars, diffVars, linkVars, ticketVars, cylcVars, vcsVars, parseVars, retryVars, mergeVars, nightlyVars>>
restOfDiff == <<urlVars, taskVars, ownerVars, mainVars, revVars, groupVars, linkVars, ticketVars, cylcVars, vcsVars, parseVars, retryVars, mergeVars, nightlyVars>>
restOfLink == <<urlVars, taskVars, ownerVars, mainVars, revVars, groupVars, diffVars, ticketVars, cylcVars, vcsVars, parseVars, retryVars, mergeVars, nightlyVars>>
restOfTicket == <<urlVars, taskVars, ownerVars, mainVars, revVars, groupVars, diffVars, linkVars, cylcVars, vcsVars, parseVars, retryVars, mergeVars, nightlyVars>>
restOfCylc == <<urlVars, taskVars, ownerVars, mainVars, revVars, groupVars, diffVars, linkVars, ticketVars, vcsVars, parseVars, retryVars, mergeVars, nightlyVars>>
restOfVcs == <<urlVars, taskVars, ownerVars, mainVars, revVars, groupVars, diffVars, linkVars, ticketVars, cylcVars, parseVars, retryVars, mergeVars, nightlyVars>>
restOfParse == <<urlVars, taskVars, ownerVars, mainVars, revVars, groupVars, diffVars, linkVars, ticketVars, cylcVars, vcsVars, retryVars, mergeVars, nightlyVars>>
restOfRetry == <<urlVars, taskVars, ownerVars, mainVars, revVars, groupVars, diffVars, linkVars, ticketVars, cylcVars, vcsVars, parseVars, mergeVars, nightlyVars>>
restOfMerge == <<urlVars, taskVars, ownerVars, mainVars, revVars, groupVars, diffVars, linkVars, ticketVars, cylcVars, vcsVars, parseVars, retryVars, nightlyVars>>
restOfNightly == <<urlVars, taskVars, ownerVars, mainVars, revVars, groupVars, diffVars, linkVars, ticketVars, cylcVars, vcsVars, parseVars, retryVars, mergeVars>>

None == "None"

-----------------------------------------------------------------------------
(* Strings and the regular expressions the code builds from them.          *)

\* One element of a pattern against one character: "." is the wildcard and
\* "[^m]" the negated class of convert_to_srs; anything else is a literal.
ElemMatch(p, c) ==
    IF p = "." THEN TRUE
    ELSE IF p = "[^m]" THEN c # "m"
    ELSE p = c

\* The pattern matches the text at position i (re.match at an offset).
MatchAt(pat, s, i) ==
    /\ i >= 1
    /\ i + Len(pat) - 1 <= Len(s)
    /\ \A k \in 1..Len(pat) : ElemMatch(pat[k], s[i + k - 1])

\* re.search(pat, s) as a truth value.
Search(pat, s) ==
    \E i \in 1..(Len(s) + 1) : MatchAt(pat, s, i)

\* Position of the leftmost match.
FirstMatch(pat, s) ==
    CHOOSE i \in 1..(Len(s) + 1) :
        /\ MatchAt(pat, s, i)
        /\ \A j \in 1..(i - 1) : ~MatchAt(pat, s, j)

\* re.sub(pat, repl, s, count=1)
SubOnce(pat, repl, s) ==
    IF ~Search(pat, s) THEN s
    ELSE LET i == FirstMatch(pat, s)
         IN  SubSeq(s, 1, i - 1) \o repl \o SubSeq(s, i + Len(pat), Len(s))

\* Python's "lit in s": the characters of lit, literally.
LitAt(lit, s, i) ==
    /\ i + Len(lit) - 1 <= Len(s)
    /\ \A k \in 1..Len(lit) : lit[k] = s[i + k - 1]

Contains(lit, s) ==
    \E i \in 1..(Len(s) + 1) : LitAt(lit, s, i)

StartsWith(lit, s) == LitAt(lit, s, 1)

HasChar(c, s) == \E i \in 1..Len(s) : s[i] = c

-----------------------------------------------------------------------------
(* The strings of the model.                                               *)

UmX ==
    <<"u", "m", ".", "x">>
UmXm ==
    <<"u", "m", ".", "x", "m">>
JulesX ==
    <<"j", "u", "l", "e", "s", ".", "x">>
JulesXm ==
    <<"j", "u", "l", "e", "s", ".", "x", "m">>
UmSrsUrl ==
    <<"h", "t", "t", "p", "s", ":", "/", "/", "c", "o", "d", "e", ".", "m", "o",
      "/", "s", "v", "n", "/", "u", "m">>
UmMirrorUrl ==
    <<"s", "v", "n", ":", "/", "/", "f", "c", "m", "1", "/", "u", "m", ".", "x",
      "m", "_", "s", "v", "n">>
JulesSrsUrl ==
    <<"h", "t", "t", "p", "s", ":", "/", "/", "c", "o", "d", "e", ".", "m", "o",
      "/", "s", "v", "n", "/", "j", "u", "l", "e", "s">>
JulesMirrorUrl ==
    <<"s", "v", "n", ":", "/", "/", "f", "c", "m", "1", "/", "j", "u", "l", "e",
      "s", ".", "x", "m", "_", "s", "v", "n">>
FcmColon ==
    <<"f", "c", "m", ":">>
SufTr ==
    <<"_", "t", "r">>
SufBr ==
    <<"_", "b", "r">>
SlashTrunk ==
    <<"/", "t", "r", "u", "n", "k">>
SlashBranches ==
    <<"/", "b", "r", "a", "n", "c", "h", "e", "s">>
WorkingCopy ==
    <<"h", "o", "s", "t", ":", "/", "h", "o", "m", "e", "/", "w", "c">>
BranchPath ==
    <<"/", "b", "1">>
Pin ==
    <<"@", "1", "2">>

-----------------------------------------------------------------------------
(* The keyword table, JobSources.urls: an ordered dictionary, here a       *)
(* sequence of <<keyword, url>> pairs with distinct keywords.              *)

MaxTable == 4

\* The entries `fcm kp` can report: a shared keyword (".x") with its SRS
\* URL and a mirror keyword (".xm") with its mirror URL, for two projects.
TablePool ==
    { <<UmX, UmSrsUrl>>, <<UmXm, UmMirrorUrl>>,
      <<JulesX, JulesSrsUrl>>, <<JulesXm, JulesMirrorUrl>> }

RECURSIVE TablesOfLen(_)
TablesOfLen(n) ==
    IF n = 0 THEN { <<>> }
    ELSE { Append(t, e) : t \in TablesOfLen(n - 1), e \in TablePool }

NoDuplicate(t) ==
    \A i, j \in 1..Len(t) : i # j => t[i] # t[j]

Tables ==
    { t \in UNION { TablesOfLen(n) : n \in 0..MaxTable } : NoDuplicate(t) }

\* key in urls
InTable(K, key) == \E i \in 1..Len(K) : K[i][1] = key

\* urls[key]
Lookup(K, key) == K[CHOOSE i \in 1..Len(K) : K[i][1] = key][2]

\* The locations handed to the conversions: the two forms of a project's
\* URL, its keywords, a working copy, each with the suffixes the code tells
\* apart.
UrlHeads ==
    { UmSrsUrl, UmMirrorUrl, FcmColon \o UmX, FcmColon \o UmXm,
      JulesSrsUrl, FcmColon \o JulesX, WorkingCopy }

UrlTails ==
    { <<>>, SlashTrunk, SufTr, SufBr \o BranchPath, BranchPath,
      SlashTrunk \o Pin, Pin }

Urls == { h \o t : h \in UrlHeads, t \in UrlTails }

-----------------------------------------------------------------------------
(* Project.convert_to_srs and Project.convert_to_mirror.                   *)

\* re.search(r".x(|m)$", proj): the keyword has the shared or the mirror
\* form.
IsXKeyword(proj) ==
    LET n == Len(proj)
    IN  \/ n >= 2 /\ proj[n] = "x"
        \/ n >= 3 /\ proj[n] = "m" /\ proj[n - 1] = "x"

\* re.sub(r"m$", r"", proj)
StripM(proj) ==
    IF Len(proj) >= 1 /\ proj[Len(proj)] = "m"
    THEN SubSeq(proj, 1, Len(proj) - 1)
    ELSE proj

\* The body of convert_to_srs's loop from entry i on; the result is the
\* value of srs_url when the loop ends or breaks.
RECURSIVE SrsFrom(_, _, _)
SrsFrom(K, i, u) ==
    IF i > Len(K) THEN u
    ELSE
      LET proj == K[i][1]
          proj_url == K[i][2]
          shared_project == StripM(proj)
          kw == FcmColon \o proj
      IN  IF ~IsXKeyword(proj) THEN SrsFrom(K, i + 1, u)
          ELSE IF Search(proj_url, u)
          THEN IF InTable(K, shared_project)
               THEN SubOnce(proj_url, Lookup(K, shared_project), u)
               ELSE SrsFrom(K, i + 1, u)
          ELSE IF Search(kw \o <<"[^m]">>, u)
          THEN IF InTable(K, shared_project)
               THEN IF MatchAt(kw \o SufTr, u, 1)
                    THEN SubOnce(kw \o SufTr,
                                 Lookup(K, shared_project) \o SlashTrunk, u)
                    ELSE IF MatchAt(kw \o SufBr, u, 1)
                    THEN SubOnce(kw \o SufBr,
                                 Lookup(K, shared_project) \o SlashBranches, u)
                    ELSE SubOnce(proj, shared_project, u)
               ELSE SrsFrom(K, i + 1, u)
          ELSE SrsFrom(K, i + 1, u)

convert_to_srs(K, u) ==
    IF u = None THEN None ELSE SrsFrom(K, 1, u)

\* The body of convert_to_mirror's loop from entry i on.
RECURSIVE MirrorFrom(_, _, _)
MirrorFrom(K, i, u) ==
    IF i > Len(K) THEN u
    ELSE
      LET proj == K[i][1]
          proj_url == K[i][2]
          new_proj == Append(proj, "m")
      IN  IF Contains(proj_url, u)
          THEN IF InTable(K, new_proj)
               THEN SubOnce(proj_url, Lookup(K, new_proj), u)
               ELSE MirrorFrom(K, i + 1, u)
          ELSE IF Contains(proj, u)
          THEN IF InTable(K, new_proj)
               THEN SubOnce(proj, new_proj, u)
               ELSE MirrorFrom(K, i + 1, u)
          ELSE MirrorFrom(K, i + 1, u)

convert_to_mirror(K, u) ==
    IF u = None THEN None ELSE MirrorFrom(K, 1, u)

-----------------------------------------------------------------------------
(* Conversions applied to a location, one after the other.                 *)

MaxOps == 2

UrlInit ==
    /\ urls \in Tables
    /\ url0 \in Urls
    /\ url = url0
    /\ ops = <<>>

ToMirror ==
    /\ Len(ops) < MaxOps
    /\ url' = convert_to_mirror(urls, url)
    /\ ops' = Append(ops, "mirror")
    /\ UNCHANGED <<urls, url0, restOfUrl>>

ToSrs ==
    /\ Len(ops) < MaxOps
    /\ url' = convert_to_srs(urls, url)
    /\ ops' = Append(ops, "srs")
    /\ UNCHANGED <<urls, url0, restOfUrl>>

UrlNext == ToMirror \/ ToSrs

UrlIdle ==
    /\ urls = <<>>
    /\ url0 = None
    /\ url = None
    /\ ops = <<>>

\* The location names a shared project of the table that has a mirror
\* counterpart: it starts with the project's SRS URL, or with the fcm:
\* keyword of the project not followed by the mirror marker.
RecognisedPublic(K, u) ==
    \E i \in 1..Len(K) :
        LET proj == K[i][1]
            kw == FcmColon \o proj
        IN  /\ proj[Len(proj)] = "x"
            /\ InTable(K, Append(proj, "m"))
            /\ \/ StartsWith(K[i][2], u)
               \/ /\ StartsWith(kw, u)
                  /\ Len(u) > Len(kw) => u[Len(kw) + 1] # "m"

\* No entry of the table matches the location, as a URL or as a keyword,
\* literally or as a pattern.
MatchesNoEntry(K, u) ==
    \A i \in 1..Len(K) :
        /\ ~Search(K[i][2], u)
        /\ ~Search(K[i][1], u)

\* C1: a location that matches a recognised public pattern of the table is
\* given back by convert_to_srs(convert_to_mirror(u)), and a location that
\* matches no entry is left unchanged by both conversions.
C1_RoundTrip ==
    /\ (ops = <<"mirror", "srs">> /\ RecognisedPublic(urls, url0))
          => url = url0
    /\ (Len(ops) = 1 /\ MatchesNoEntry(urls, url0)) => url = url0

-----------------------------------------------------------------------------
(* SuiteReport.generate_task_table: the loop over the sorted task states.  *)

Housekeep ==
    <<"h", "o", "u", "s", "e", "k", "e", "e", "p">>
Gatekeeper ==
    <<"g", "a", "t", "e", "k", "e", "e", "p", "e", "r">>
Monitor ==
    <<"m", "o", "n", "i", "t", "o", "r">>
RoseAna ==
    <<"r", "o", "s", "e", "_", "a", "n", "a">>
Succeeded ==
    <<"s", "u", "c", "c", "e", "e", "d", "e", "d">>
Failed ==
    <<"f", "a", "i", "l", "e", "d">>
SubmitFailed ==
    <<"s", "u", "b", "m", "i", "t", "-", "f", "a", "i", "l", "e", "d">>
Waiting ==
    <<"w", "a", "i", "t", "i", "n", "g">>
HlVs ==
    <<"_", "v", "s", "_">>
HlLrunCrun ==
    <<"l", "r", "u", "n", "_", "c", "r", "u", "n", "_", "a", "t", "m", "o",
      "s">>
HlProc ==
    <<"p", "r", "o", "c">>
HlAtmosOmp ==
    <<"a", "t", "m", "o", "s", "_", "o", "m", "p">>
HlNruncrun ==
    <<"a", "t", "m", "o", "s", "_", "n", "r", "u", "n", "c", "r", "u", "n">>
HlThread ==
    <<"a", "t", "m", "o", "s", "_", "t", "h", "r", "e", "a", "d">>
HlV ==
    <<"-", "v", "-">>
TaskHousekeeping ==
    <<"h", "o", "u", "s", "e", "k", "e", "e", "p", "i", "n", "g">>
TaskGatekeeper ==
    <<"g", "a", "t", "e", "k", "e", "e", "p", "e", "r">>
TaskMonitor ==
    <<"m", "o", "n", "i", "t", "o", "r", "_", "j", "o", "b", "s">>
TaskRoseAnaOmp ==
    <<"r", "o", "s", "e", "_", "a", "n", "a", "_", "a", "t", "m", "o", "s",
      "_", "o", "m", "p", "_", "v", "s", "_", "c", "o", "n", "t", "r", "o",
      "l">>
TaskRoseAnaMule ==
    <<"r", "o", "s", "e", "_", "a", "n", "a", "_", "m", "u", "l", "e">>
TaskAtmos ==
    <<"a", "t", "m", "o", "s", "_", "n", "4", "8">>
PINK_FAIL_TEXT ==
    <<"'", "'", "'", "[", "[", "s", "p", "a", "n", "(", "s", "t", "y", "l",
      "e", "=", "c", "o", "l", "o", "r", ":", " ", "#", "F", "F", "0", "0",
      "F", "F", ",", " ", "p", "i", "n", "k", " ", "f", "a", "i", "l", "u",
      "r", "e", " ", ")", "]", "]", "'", "'", "'">>
AsciiOrder ==
    <<" ", "#", "'", "(", ")", ",", "-", ".", "0", "1", "2", "3", "4", "5",
      "6", "7", "8", "9", ":", "=", "@", "F", "Q", "[", "]", "_", "a", "b",
      "c", "d", "e", "f", "g", "h", "i", "j", "k", "l", "m", "n", "o", "p",
      "q", "r", "s", "t", "u", "v", "w", "x", "y", "z">>

HIGHLIGHT_ROSE_ANA_FAILS ==
    <<HlVs, HlLrunCrun, HlProc, HlAtmosOmp, HlNruncrun, HlThread, HlV>>

DEFAULT_VERBOSITY == 3

\* Python compares strings by code point.
CodePoint ==
    [ c \in { AsciiOrder[i] : i \in 1..Len(AsciiOrder) } |->
        CHOOSE i \in 1..Len(AsciiOrder) : AsciiOrder[i] = c ]

Ord(c) == CodePoint[c]

StrLess(a, b) ==
    \E i \in 1..(Len(a) + 1) :
        /\ \A k \in 1..(i - 1) : k <= Len(b) /\ a[k] = b[k]
        /\ \/ i = Len(a) + 1 /\ Len(b) >= i
           \/ i <= Len(a) /\ i <= Len(b) /\ Ord(a[i]) < Ord(b[i])

\* key_by_name_or_status: an item is <<task, state>>.
key_by_name_or_status(item, byName) ==
    IF byName THEN item ELSE <<item[2], item[1]>>

KeyLess(x, y) ==
    \/ StrLess(x[1], y[1])
    \/ x[1] = y[1] /\ StrLess(x[2], y[2])

\* sorted(items, key=...)
RECURSIVE Sorted(_, _)
Sorted(items, byName) ==
    IF items = {} THEN <<>>
    ELSE LET first == CHOOSE x \in items : \A y \in items \ {x} :
                          KeyLess(key_by_name_or_status(x, byName),
                                  key_by_name_or_status(y, byName))
         IN  <<first>> \o Sorted(items \ {first}, byName)

\* list(data.items())
Items(d) == { <<t, d[t]>> : t \in DOMAIN d }

\* A defaultdict(int): d[k] += n
Add(d, k, n) ==
    IF k \in DOMAIN d THEN [d EXCEPT ![k] = @ + n] ELSE d @@ (k :> n)

RECURSIVE ExtraCareHits(_, _)
RECURSIVE ExtraCareHitsNoBreak(_, _)

\* The loop without its "break": the body of the "if" runs for every entry
\* that is in the task's name.
ExtraCareHitsNoBreak(i, task) ==
    IF i > Len(HIGHLIGHT_ROSE_ANA_FAILS) THEN 0
    ELSE IF Contains(HIGHLIGHT_ROSE_ANA_FAILS[i], task)
    THEN 1 + ExtraCareHitsNoBreak(i + 1, task)
    ELSE ExtraCareHitsNoBreak(i + 1, task)

\* The for loop over HIGHLIGHT_ROSE_ANA_FAILS from entry i on: how often the
\* body of its "if" runs before the loop breaks or ends.
ExtraCareHits(i, task) ==
    IF i > Len(HIGHLIGHT_ROSE_ANA_FAILS) THEN 0
    ELSE IF Contains(HIGHLIGHT_ROSE_ANA_FAILS[i], task) THEN 1
    ELSE ExtraCareHits(i + 1, task)

\* The category under which the loop skips the task ("continue"), or ""
\* when the task goes on to get a row; hiding is by gatekeeping tasks at
\* verbosity 2 alone.
HiddenCategoryGatekeepAtTwoOnly(task, state, v, common) ==
    IF v >= 1 /\ StartsWith(Housekeep, task) THEN "''Housekeeping''"
    ELSE IF v = 2 /\ StartsWith(Gatekeeper, task) THEN "''Gatekeeping''"
    ELSE IF StartsWith(Monitor, task) THEN "''Monitoring''"
    ELSE IF Contains(Succeeded, state) /\ (v >= 4 \/ (v >= 3 /\ common))
    THEN "'''Succeeded'''"
    ELSE ""

\* The category under which the loop skips the task ("continue"), or ""
\* when the task goes on to get a row.
HiddenCategory(task, state, v, common) ==
    IF v >= 1 /\ StartsWith(Housekeep, task) THEN "''Housekeeping''"
    ELSE IF v >= 2 /\ StartsWith(Gatekeeper, task) THEN "''Gatekeeping''"
    ELSE IF StartsWith(Monitor, task) THEN "''Monitoring''"
    ELSE IF Contains(Succeeded, state) /\ (v >= 4 \/ (v >= 3 /\ common))
    THEN "'''Succeeded'''"
    ELSE ""

\* The reclassification without the decrement of the state's own count.
ReclassifyNoDecrement(counts, state, hits) ==
    Add(counts, PINK_FAIL_TEXT, hits)

\* The reclassification of a failure that needs extra care: the pink count
\* goes up and the state's own count down, once per run of the "if" body.
Reclassify(counts, state, hits) ==
    Add(Add(counts, PINK_FAIL_TEXT, hits), state, -hits)

\* What the loop has built so far.
TableStart(counts) ==
    [ status_counts |-> counts,
      hidden_counts |-> <<>>,
      task_table |-> <<>>,
      failed_configs |-> <<>>,
      hidden |-> TRUE ]

\* table.send([task, highlighted state]); hidden = False
SendRow(acc, task, highlight, state) ==
    [acc EXCEPT !.task_table = Append(@, <<task, highlight, state>>),
                !.hidden = FALSE]

\* The loop body with the tally taken after the tests that skip a task.
TaskStepTallyAfterSkip(acc, task, state, v, common) ==
    LET counted == [acc EXCEPT !.status_counts = Add(@, state, 1)]
        category == HiddenCategory(task, state, v, common)
        hits == ExtraCareHits(1, task)
    IN  IF category # ""
        THEN [acc EXCEPT !.hidden_counts = Add(@, category, 1)]
        ELSE IF Contains(Succeeded, state)
        THEN SendRow(counted, task, "plain", state)
        ELSE IF Contains(RoseAna, task) /\ Contains(Failed, state)
        THEN IF hits > 0
             THEN SendRow([counted EXCEPT !.status_counts =
                                       Reclassify(@, state, hits)],
                          task, "pink", state)
             ELSE SendRow([counted EXCEPT !.failed_configs = Append(@, task)],
                          task, "bold", state)
        ELSE SendRow(counted, task, "bold", state)

\* One pass of the loop body for <<task, state>>.
TaskStep(acc, task, state, v, common) ==
    LET counted == [acc EXCEPT !.status_counts = Add(@, state, 1)]
        category == HiddenCategory(task, state, v, common)
        hits == ExtraCareHits(1, task)
    IN  IF category # ""
        THEN [counted EXCEPT !.hidden_counts = Add(@, category, 1)]
        ELSE IF Contains(Succeeded, state)
        THEN SendRow(counted, task, "plain", state)
        ELSE IF Contains(RoseAna, task) /\ Contains(Failed, state)
        THEN IF hits > 0
             THEN SendRow([counted EXCEPT !.status_counts =
                                       Reclassify(@, state, hits)],
                          task, "pink", state)
             ELSE SendRow([counted EXCEPT !.failed_configs = Append(@, task)],
                          task, "bold", state)
        ELSE SendRow(counted, task, "bold", state)

\* The loop over the sorted items from item i on.
RECURSIVE TaskLoop(_, _, _, _, _)
TaskLoop(acc, items, i, v, common) ==
    IF i > Len(items) THEN acc
    ELSE TaskLoop(TaskStep(acc, items[i][1], items[i][2], v, common),
                  items, i + 1, v, common)

\* The tables generate_task_table builds from a task map.
TaskTables(counts, d, byName, v, common) ==
    TaskLoop(TableStart(counts), Sorted(Items(d), byName), 1, v, common)

MaxTasks == 2
MaxVerbosity == 4

TaskPool ==
    { TaskHousekeeping, TaskGatekeeper, TaskMonitor, TaskRoseAnaOmp,
      TaskRoseAnaMule, TaskAtmos }

TaskStates == { Succeeded, Failed, SubmitFailed, Waiting }

TaskMaps ==
    UNION { [S -> TaskStates] :
              S \in { T \in SUBSET TaskPool : Cardinality(T) <= MaxTasks } }

\* SuiteReport.__init__: status_counts is a defaultdict(int) holding a zero
\* for "failed".
TaskInit ==
    /\ data \in TaskMaps
    /\ verbosity \in 0..MaxVerbosity
    /\ only_common_groups \in BOOLEAN
    /\ sort_by_name \in BOOLEAN
    /\ status_counts = (Failed :> 0)
    /\ hidden_counts = <<>>
    /\ task_table = <<>>
    /\ failed_configs = <<>>
    /\ hidden = TRUE
    /\ tpc = "start"

TaskIdle ==
    /\ data = <<>>
    /\ verbosity = DEFAULT_VERBOSITY
    /\ only_common_groups = FALSE
    /\ sort_by_name = FALSE
    /\ status_counts = (Failed :> 0)
    /\ hidden_counts = <<>>
    /\ task_table = <<>>
    /\ failed_configs = <<>>
    /\ hidden = TRUE
    /\ tpc = "idle"

generate_task_table ==
    /\ tpc = "start"
    /\ LET built == TaskTables(status_counts, data, sort_by_name,
                               verbosity, only_common_groups)
       IN  /\ status_counts' = built.status_counts
           /\ hidden_counts' = built.hidden_counts
           /\ task_table' = built.task_table
           /\ failed_configs' = built.failed_configs
           /\ hidden' = built.hidden
    /\ tpc' = "done"
    /\ UNCHANGED <<data, verbosity, only_common_groups, sort_by_name,
                   restOfTask>>

TaskNext == generate_task_table

\* The sum of the counts of a dictionary.
RECURSIVE SumOver(_, _)
SumOver(d, keys) ==
    IF keys = {} THEN 0
    ELSE LET k == CHOOSE x \in keys : TRUE
         IN  d[k] + SumOver(d, keys \ {k})

Total(d) == SumOver(d, DOMAIN d)

NumTasks == Cardinality(DOMAIN data)

\* C2: once the task table is generated, the itemized rows and the hidden
\* counts together number the tasks, and so do the status tallies.
C2_CountsConserved ==
    tpc = "done" =>
        /\ Len(task_table) + Total(hidden_counts) = NumTasks
        /\ Total(status_counts) = NumTasks

\* A run with a reclassified (pink) failure and a hidden task.
C2_Witness ==
    /\ tpc = "done"
    /\ PINK_FAIL_TEXT \in DOMAIN status_counts
    /\ Total(hidden_counts) > 0
    /\ Len(task_table) > 0

\* The tasks of the map that have no row in the itemized table.
HiddenTasks(rows, d) ==
    { t \in DOMAIN d : \A i \in 1..Len(rows) : rows[i][1] # t }

\* C4: a task hidden at the verbosity of the run is hidden at every higher
\* verbosity, for the same task map and run-group setting.
C4_VerbosityMonotone ==
    tpc = "done" =>
        \A v2 \in verbosity..(MaxVerbosity + 1) :
            HiddenTasks(task_table, data) \subseteq
                HiddenTasks(TaskTables((Failed :> 0), data, sort_by_name, v2,
                                       only_common_groups).task_table, data)

\* A gatekeeping task hidden at verbosity 2, below the highest verbosity.
C4_Witness ==
    /\ tpc = "done"
    /\ verbosity = 2
    /\ TaskGatekeeper \in HiddenTasks(task_table, data)

-----------------------------------------------------------------------------
(* SuiteReport.get_code_owners and SuiteReport.lookup_ownership_section.   *)

FileAdmin ==
    <<"a", "d", "m", "i", "n", "/", "a", ".", "s", "h">>
FileBin ==
    <<"b", "i", "n", "/", "b", ".", "p", "y">>
FileFcmMake ==
    <<"f", "c", "m", "-", "m", "a", "k", "e", "/", "c", ".", "c", "f", "g">>
FileRoseBin ==
    <<"r", "o", "s", "e", "-", "s", "t", "e", "m", "/", "b", "i", "n", "/",
      "d", ".", "p", "y">>
FileSrc ==
    <<"s", "r", "c", "/", "e", ".", "F", "9", "0">>
FileCodeOwners ==
    <<"C", "o", "d", "e", "O", "w", "n", "e", "r", "s", ".", "t", "x", "t">>
FileReversed ==
    <<".", ".", "/", "b", "1", "/", "s", "r", "c", "/", "e", ".", "F", "9",
      "0">>
DotDot ==
    <<".", ".">>
ConfigOwnersTxt ==
    <<"c", "o", "n", "f", "i", "g", "o", "w", "n", "e", "r", "s", ".", "t",
      "x", "t">>
CodeOwnersTxt ==
    <<"c", "o", "d", "e", "o", "w", "n", "e", "r", "s", ".", "t", "x", "t">>
PrefixAdmin ==
    <<"a", "d", "m", "i", "n">>
PrefixBin ==
    <<"b", "i", "n">>
PrefixFcmMake ==
    <<"f", "c", "m", "-", "m", "a", "k", "e">>
PrefixFab ==
    <<"f", "a", "b">>
PrefixRoseStem ==
    <<"r", "o", "s", "e", "-", "s", "t", "e", "m">>
PrefixRoseMeta ==
    <<"r", "o", "s", "e", "-", "m", "e", "t", "a">>
Umdp3Check ==
    <<"u", "m", "d", "p", "3", "_", "c", "h", "e", "c", "k">>
RunCppcheck ==
    <<"r", "u", "n", "_", "c", "p", "p", "c", "h", "e", "c", "k">>
RoseStemBin ==
    <<"r", "o", "s", "e", "-", "s", "t", "e", "m", "/", "b", "i", "n">>
VersionsPy ==
    <<"v", "e", "r", "s", "i", "o", "n", "s", ".", "p", "y">>
RoseMetaConf ==
    <<"r", "o", "s", "e", "-", "m", "e", "t", "a", ".", "c", "o", "n", "f">>
UpperCase ==
    <<"A", "B", "C", "D", "E", "F", "G", "H", "I", "J", "K", "L", "M", "N",
      "O", "P", "Q", "R", "S", "T", "U", "V", "W", "X", "Y", "Z">>
LowerCase ==
    <<"a", "b", "c", "d", "e", "f", "g", "h", "i", "j", "k", "l", "m", "n",
      "o", "p", "q", "r", "s", "t", "u", "v", "w", "x", "y", "z">>

\* str.lower()
LowerChar(c) ==
    IF \E i \in 1..Len(UpperCase) : UpperCase[i] = c
    THEN LowerCase[CHOOSE i \in 1..Len(UpperCase) : UpperCase[i] = c]
    ELSE c

Lower(s) == [i \in 1..Len(s) |-> LowerChar(s[i])]

\* Position of the first literal occurrence of lit in s, 0 when there is none.
Find(lit, s) ==
    IF Contains(lit, s)
    THEN CHOOSE i \in 1..(Len(s) + 1) :
             LitAt(lit, s, i) /\ \A j \in 1..(i - 1) : ~LitAt(lit, s, j)
    ELSE 0

\* s.split(c)[0] for a character c
BeforeChar(c, s) ==
    IF HasChar(c, s) THEN SubSeq(s, 1, Find(<<c>>, s) - 1) ELSE s

\* s.split("/")[-1]
RECURSIVE LastComponent(_)
LastComponent(s) ==
    IF HasChar("/", s)
    THEN LastComponent(SubSeq(s, Find(<<"/">>, s) + 1, Len(s)))
    ELSE s

\* s.strip("/")
RECURSIVE StripSlashes(_)
StripSlashes(s) ==
    IF Len(s) > 0 /\ s[1] = "/" THEN StripSlashes(Tail(s))
    ELSE IF Len(s) > 0 /\ s[Len(s)] = "/"
    THEN StripSlashes(SubSeq(s, 1, Len(s) - 1))
    ELSE s

\* s.split(sep, 1)[1]: defined when sep occurs in s.
AfterFirst(sep, s) == SubSeq(s, Find(sep, s) + Len(sep), Len(s))

lookup_ownership_section(fle) ==
    IF StartsWith(PrefixFcmMake, fle) THEN "fcm-make_um"
    ELSE IF StartsWith(PrefixFab, fle) THEN "fab"
    ELSE IF StartsWith(PrefixRoseStem, fle)
    THEN IF Contains(Umdp3Check, fle) THEN "umdp3_checker"
         ELSE IF Contains(RunCppcheck, fle) THEN "run_cppcheck"
         ELSE IF Contains(RoseStemBin, fle) THEN "rose_bin"
         ELSE "rose_stem"
    ELSE IF StartsWith(PrefixRoseMeta, fle)
    THEN IF Contains(VersionsPy, fle) THEN "upgrade_macros"
         ELSE IF Contains(RoseMetaConf, fle) THEN "rose-meta.conf"
         ELSE "stash"
    ELSE ""

UmSysTeam == <<"!umsysteam@metoffice.gov.uk">>
UnknownOwner == <<"Unknown - ensure section is in CodeOwners.txt">>

\* owner += " (" + deputy + ")"
OwnerKey(owners) ==
    IF Len(owners[2]) > 0
    THEN owners[1] \o <<" (">> \o owners[2] \o <<")">>
    ELSE owners[1]

\* needed_approvals[owner].add(section), with the call noted for file i.
AddApproval(acc, i, owner, section) ==
    [acc EXCEPT
       !.needed = IF owner \in DOMAIN @
                  THEN [@ EXCEPT ![owner] = @ \cup {section}]
                  ELSE @ @@ (owner :> {section}),
       !.log = Append(@, [file |-> i, owner |-> owner, section |-> section])]

\* The try/except at the end of the loop body, with a section that is missing
\* from the table passed over.
RecordApprovalSkipUnknown(acc, i, section, owners_dict) ==
    IF section \in DOMAIN owners_dict
    THEN AddApproval(acc, i, OwnerKey(owners_dict[section]), section)
    ELSE acc

\* The try/except at the end of the loop body.
RecordApproval(acc, i, section, owners_dict) ==
    IF section \in DOMAIN owners_dict
    THEN AddApproval(acc, i, OwnerKey(owners_dict[section]), section)
    ELSE AddApproval(acc, i, UnknownOwner, section)

\* The file name the loop body works on: a path with ".." in it is cut down
\* to what follows the branch name.
HasBranchName(fle, repo_loc) ==
    Contains(LastComponent(repo_loc), fle)

FilePath(fle, repo_loc) ==
    IF Contains(DotDot, fle)
    THEN StripSlashes(AfterFirst(LastComponent(repo_loc), fle))
    ELSE fle

\* get_file_section_header: the section named in the header of the exported
\* file, "" when the export fails or the header names none.
get_file_section_header(fpath, headers) ==
    IF fpath \in DOMAIN headers THEN headers[fpath] ELSE ""

\* One pass of the loop body for file i.
OwnerStep(acc, i, files, repo_loc, owners_dict, headers) ==
    LET fpath == FilePath(files[i], repo_loc)
        fle == Lower(fpath)
        looked_up == lookup_ownership_section(fle)
        section == IF looked_up = ""
                   THEN get_file_section_header(fpath, headers)
                   ELSE looked_up
    IN  IF Contains(ConfigOwnersTxt, fle) \/ Contains(CodeOwnersTxt, fle)
        THEN acc
        ELSE IF StartsWith(PrefixAdmin, fle)
        THEN AddApproval(acc, i, UmSysTeam, "admin")
        ELSE IF StartsWith(PrefixBin, fle)
        THEN AddApproval(acc, i, UmSysTeam, "bin")
        ELSE RecordApproval(acc, i, section, owners_dict)

\* The loop from file i on; IndexError leaves the loop when a ".." path does
\* not hold the branch name.
RECURSIVE OwnerLoop(_, _, _, _, _, _)
OwnerLoop(acc, i, files, repo_loc, owners_dict, headers) ==
    IF i > Len(files) THEN acc
    ELSE IF Contains(DotDot, files[i]) /\ ~HasBranchName(files[i], repo_loc)
    THEN [acc EXCEPT !.raised = TRUE]
    ELSE OwnerLoop(OwnerStep(acc, i, files, repo_loc, owners_dict, headers),
                   i + 1, files, repo_loc, owners_dict, headers)

\* get_code_owners: None for an empty list of files.
CodeOwners(files, mirror, owners_dict, headers) ==
    IF Len(files) = 0
    THEN [needed |-> None, none |-> TRUE, log |-> <<>>, raised |-> FALSE]
    ELSE OwnerLoop([needed |-> <<>>, none |-> FALSE, log |-> <<>>,
                    raised |-> FALSE],
                   1, files, BeforeChar("@", mirror), owners_dict, headers)

MaxFiles == 2

FilePool ==
    { FileAdmin, FileBin, FileFcmMake, FileRoseBin, FileSrc, FileCodeOwners,
      FileReversed }

RECURSIVE FileListsOfLen(_)
FileListsOfLen(n) ==
    IF n = 0 THEN { <<>> }
    ELSE { Append(l, f) : l \in FileListsOfLen(n - 1), f \in FilePool }

FileLists ==
    { l \in UNION { FileListsOfLen(n) : n \in 0..MaxFiles } : NoDuplicate(l) }

\* The dictionaries generate_owner_dictionary can hand over:
\* section -> <<owner, deputy>>.
OwnerDicts ==
    { <<>>,
      ("fcm-make_um" :> <<UmSysTeam, <<>>>>) @@
          ("atmosphere" :> <<<<"alice">>, <<"bob">>>>) @@
          ("rose_bin" :> <<<<"carol">>, <<>>>>),
      ("atmosphere" :> <<<<"alice">>, <<>>>>) @@
          ("admin" :> <<<<"dave">>, <<>>>>) }

HeaderSections == { "", "atmosphere", "radiation" }

OwnerInit ==
    /\ bdiff_files \in FileLists
    /\ code_owners \in OwnerDicts
    /\ repo_mirror \in { UmMirrorUrl \o BranchPath \o Pin,
                         UmMirrorUrl \o SlashTrunk }
    /\ file_headers \in [{FileSrc} -> HeaderSections]
    /\ needed_approvals = <<>>
    /\ approvals_log = <<>>
    /\ opc = "start"

OwnerIdle ==
    /\ bdiff_files = <<>>
    /\ code_owners = <<>>
    /\ repo_mirror = None
    /\ file_headers = <<>>
    /\ needed_approvals = <<>>
    /\ approvals_log = <<>>
    /\ opc = "idle"

get_code_owners ==
    /\ opc = "start"
    /\ LET got == CodeOwners(bdiff_files, repo_mirror, code_owners,
                             file_headers)
       IN  /\ needed_approvals' = got.needed
           /\ approvals_log' = got.log
           /\ opc' = IF got.raised THEN "raised" ELSE "returned"
    /\ UNCHANGED <<bdiff_files, code_owners, repo_mirror, file_headers,
                   restOfOwner>>

OwnerNext == get_code_owners

\* The calls of needed_approvals[...].add made for file i.
ContributionsOf(i) ==
    { k \in 1..Len(approvals_log) : approvals_log[k].file = i }

IsOwnersFile(f) ==
    \/ Contains(ConfigOwnersTxt, Lower(f))
    \/ Contains(CodeOwnersTxt, Lower(f))

\* The section of file i is in the set of exactly one owner, through exactly
\* one call.
ContributesOnce(i) ==
    /\ Cardinality(ContributionsOf(i)) = 1
    /\ \A k \in ContributionsOf(i) :
          /\ approvals_log[k].owner \in DOMAIN needed_approvals
          /\ approvals_log[k].section
                 \in needed_approvals[approvals_log[k].owner]

\* A file under admin or bin goes to the systems team whatever the table says.
IsSystemsFile(f, mirror) ==
    LET fle == Lower(FilePath(f, BeforeChar("@", mirror)))
    IN  StartsWith(PrefixAdmin, fle) \/ StartsWith(PrefixBin, fle)

\* C3 as stated: when get_code_owners returns for a list of changed files,
\* every file of the list contributes to exactly one owner's approval set.
C3_EveryFileOnce ==
    (opc = "returned" /\ Len(bdiff_files) > 0) =>
        \A i \in 1..Len(bdiff_files) : ContributesOnce(i)

\* C3 as amended: the owners files themselves contribute nothing; every other
\* file contributes to exactly one owner's set, and to the Unknown owner's
\* when its section is not in the table (and it is not under admin or bin).
C3_EveryOtherFileOnce ==
    (opc = "returned" /\ Len(bdiff_files) > 0) =>
        \A i \in 1..Len(bdiff_files) :
            IF IsOwnersFile(bdiff_files[i])
            THEN ContributionsOf(i) = {}
            ELSE /\ ContributesOnce(i)
                 /\ \A k \in ContributionsOf(i) :
                       (/\ ~IsSystemsFile(bdiff_files[i], repo_mirror)
                        /\ approvals_log[k].section \notin DOMAIN code_owners)
                           => approvals_log[k].owner = UnknownOwner

\* Two files, one in a section of the table and one attributed to Unknown.
C3_Witness ==
    /\ opc = "returned"
    /\ Len(bdiff_files) = 2
    /\ UnknownOwner \in DOMAIN needed_approvals
    /\ \E sec \in DOMAIN code_owners :
          /\ OwnerKey(code_owners[sec]) \in DOMAIN needed_approvals
          /\ sec \in needed_approvals[OwnerKey(code_owners[sec])]

-----------------------------------------------------------------------------
(* main: SuiteReport.__init__ with JobSources.setup and Project.__init__,  *)
(* then print_report and write_final_report.                                *)

Dot ==
    <<".">>
DirSrc ==
    <<"s", "r", "c">>

\* list.remove(x): the first x goes, nothing happens when there is none.
RemoveFirst(lst, x) ==
    IF \E i \in 1..Len(lst) : lst[i] = x
    THEN LET k == CHOOSE i \in 1..Len(lst) :
                      lst[i] = x /\ \A j \in 1..(i - 1) : lst[j] # x
         IN  SubSeq(lst, 1, k - 1) \o SubSeq(lst, k + 1, Len(lst))
    ELSE lst

\* for item in bdiff_files: ... bdiff_files.remove(item), the list being
\* changed under the iteration.
RECURSIVE FilterLoop(_, _)
FilterLoop(lst, i) ==
    IF i > Len(lst) THEN lst
    ELSE IF ~HasChar(".", LastComponent(lst[i]))
    THEN FilterLoop(RemoveFirst(lst, lst[i]), i + 1)
    ELSE FilterLoop(lst, i + 1)

DiffAttempts == 5
LastAttempt == 4

\* The retry loop without the fall-back of the last attempt: the loop runs
\* out and bdiff_files is read unbound.
RECURSIVE DiffLoopNoFallback(_, _, _)
DiffLoopNoFallback(attempt, failures, listing) ==
    IF attempt >= DiffAttempts
    THEN [files |-> <<>>, raised |-> "UnboundLocalError"]
    ELSE IF attempt >= failures
    THEN [files |-> listing, raised |-> None]
    ELSE DiffLoopNoFallback(attempt + 1, failures, listing)

\* for attempt in range(5): the first `failures` calls of
\* get_branch_diff_filenames raise, the next one returns listing.
RECURSIVE DiffLoop(_, _, _)
DiffLoop(attempt, failures, listing) ==
    IF attempt >= DiffAttempts
    THEN [files |-> <<>>, raised |-> "UnboundLocalError"]
    ELSE IF attempt >= failures
    THEN [files |-> listing, raised |-> None]
    ELSE IF attempt = LastAttempt
    THEN [files |-> <<>>, raised |-> None]
    ELSE DiffLoop(attempt + 1, failures, listing)

get_altered_files_list(failures, listing) ==
    LET got == DiffLoop(0, failures, listing)
    IN  [got EXCEPT !.files = FilterLoop(RemoveFirst(@, Dot), 1)]

\* Project.__init__ for the parameters p of one source: p.res is what the
\* repository commands do (the mirror exists, it does not, a command fails,
\* a key is missing from the parameters).
Project(p) ==
    IF p.res = "KeyError" \/ p.res = "IOError"
    THEN [valid |-> FALSE, raised |-> p.res, bdiff_files |-> <<>>,
          mirror |-> None]
    ELSE IF p.res = "invalid"
    THEN [valid |-> FALSE, raised |-> None, bdiff_files |-> <<>>,
          mirror |-> UmMirrorUrl \o BranchPath]
    ELSE LET got == get_altered_files_list(p.failures, p.listing)
         IN  [valid |-> TRUE, raised |-> got.raised,
              bdiff_files |-> got.files,
              mirror |-> UmMirrorUrl \o BranchPath \o Pin]

RECURSIVE SetupLoop(_, _, _, _)
SetupLoop(order, i, sources, acc) ==
    IF i > Len(order) THEN acc
    ELSE LET item == Project(sources[order[i]])
         IN  IF item.raised # None
             THEN [acc EXCEPT !.raised = item.raised]
             ELSE IF item.valid
             THEN SetupLoop(order, i + 1, sources,
                      [acc EXCEPT !.projects = @ @@ (order[i] :> item)])
             ELSE SetupLoop(order, i + 1, sources,
                      [acc EXCEPT !.invalid = @ \cup {order[i]}])

Restrict(f, S) == [x \in S |-> f[x]]

\* JobSources.setup with the invalid sources left in job_sources.
JobSources_setupKeepInvalid(order, sources) ==
    LET r == SetupLoop(order, 1, sources,
                 [projects |-> <<>>, invalid |-> {}, raised |-> None])
    IN  [job_sources |-> sources,
         projects |-> r.projects, raised |-> r.raised]

\* JobSources.setup: order is the order of the keys of job_sources.
JobSources_setup(order, sources) ==
    LET r == SetupLoop(order, 1, sources,
                 [projects |-> <<>>, invalid |-> {}, raised |-> None])
    IN  [job_sources |-> IF r.raised # None THEN sources
                         ELSE Restrict(sources, DOMAIN sources \ r.invalid),
         projects |-> r.projects, raised |-> r.raised]

\* JobSources.primary_project
JobSources_primary_project(sources) ==
    IF "LFRIC_APPS" \in DOMAIN sources THEN "LFRIC_APPS"
    ELSE IF "UM" \in DOMAIN sources THEN "UM"
    ELSE IF "JULES" \in DOMAIN sources THEN "JULES"
    ELSE IF "UKCA" \in DOMAIN sources THEN "UKCA"
    ELSE "UNKNOWN"

\* JobSources.__contains__, __getitem__ (defined where it does not raise
\* KeyError) and __iter__
JobSources_contains(sources, key) == key \in DOMAIN sources
JobSources_getitem_defined(projs, key) == key \in DOMAIN projs
JobSources_iter(projs) == DOMAIN projs

uncommitted_changes == 0

UncommittedWarning == "uncommitted changes"

ApprovalsTitle == "'''Required Code Owner Approvals'''"
NoneRequired == "No UM Code Owner Approvals Required"
Pending == "Pending"
ConfigApprovals == "'''Required Config Owner Approvals'''"
EndOfReport == "}}}"

\* The dictionary generate_owner_dictionary reads from CodeOwners.txt.
ReadableOwners == CHOOSE d \in OwnerDicts : "rose_bin" \in DOMAIN d

\* required_co_approvals: the lines it adds and the exception it ends with.
\* The owners file is unreadable when the export has failed and the copy in
\* the working copy of job_sources["UM"] cannot be opened; when the file is
\* read, get_code_owners looks job_sources["UM"] up in its turn.
required_co_approvals(projs, owners_ok) ==
    IF ~JobSources_getitem_defined(projs, "UM")
    THEN [lines |-> <<>>, raised |-> "KeyError"]
    ELSE IF ~owners_ok THEN [lines |-> <<>>, raised |-> None]
    ELSE LET got == CodeOwners(projs["UM"].bdiff_files, projs["UM"].mirror,
                               ReadableOwners, (FileSrc :> "atmosphere"))
         IN  IF got.raised THEN [lines |-> <<>>, raised |-> "IndexError"]
             ELSE IF got.none
             THEN [lines |-> <<ApprovalsTitle, NoneRequired>>,
                   raised |-> None]
             ELSE [lines |-> <<ApprovalsTitle, Pending>>, raised |-> None]

\* generate_task_table with the approvals written whatever the primary
\* project is.
TaskTableSectionsAlwaysApprovals(primary, projs, owners_ok) ==
    LET co == required_co_approvals(projs, owners_ok)
        config == IF owners_ok THEN <<ConfigApprovals>> ELSE <<>>
    IN  IF co.raised # None THEN co
        ELSE [lines |-> co.lines \o config \o
                        <<"'''Suite Output'''", "'''All Tasks'''",
                          "task_table">>,
              raised |-> None]

\* generate_task_table: the approvals go straight to the output, the task
\* table is appended at the end.
TaskTableSections(primary, projs, owners_ok) ==
    LET co == IF primary = "UM" THEN required_co_approvals(projs, owners_ok)
              ELSE [lines |-> <<>>, raised |-> None]
        config == IF primary = "UM" /\ owners_ok
                  THEN <<ConfigApprovals>> ELSE <<>>
    IN  IF co.raised # None THEN co
        ELSE [lines |-> co.lines \o config \o
                        <<"'''Suite Output'''", "'''All Tasks'''",
                          "task_table">>,
              raised |-> None]

\* print_report: what the sections write when nothing else goes wrong (the
\* header, the project table with the notes that go with it, the LFRic
\* check, the task table).
ReportSections(primary, projs, owners_ok) ==
    LET tasks == TaskTableSections(primary, projs, owners_ok)
        head == <<"{{{#!div", "report_header">>
                \o (IF uncommitted_changes # 0
                    THEN <<UncommittedWarning>> ELSE <<>>)
                \o <<"project table">>
                \o (IF primary # "LFRIC_APPS" /\ primary # "UNKNOWN"
                    THEN <<"'''LFRic Testing Requirements'''">> ELSE <<>>)
    IN  [lines |-> head \o tasks.lines
                   \o (IF tasks.raised = None THEN <<EndOfReport>> ELSE <<>>),
         raised |-> tasks.raised]

SchedulerLogPointer ==
    "There has been an exception in SuiteReport. See output for more information"
Traceback == "Traceback (most recent call last):"

\* The except clause of main with the pointer left out.
ExceptClauseTracebackOnly(buffer) == buffer \o <<Traceback>>

\* The except clause of main: what it adds to trac_log.
ExceptClause(buffer) == buffer \o <<SchedulerLogPointer, Traceback>>

\* Exception-derived classes are caught by `except Exception`.
IsException(e) == e \in {"Exception", "KeyError", "IndexError"}

\* Where main goes when the handler is done, were there no finally clause.
AfterExceptNoFinally(e) == "raised"

\* Where main goes when the handler is done: the finally clause.
AfterExcept(e) == "finally"

StartMarker == "----- Start of trac.log -----"
EndMarker == "----- End of trac.log -----"

\* The except clause of write_final_report with the buffer left out.
EchoMarkersOnly(out, buffer) ==
    out \o <<"[ERROR] Writing to trac.log file",
             "trac.log to this point would have read as follows :",
             StartMarker>>
        \o <<EndMarker>>

\* The except clause of write_final_report: what it prints.
Echo(out, buffer) ==
    out \o <<"[ERROR] Writing to trac.log file",
             "trac.log to this point would have read as follows :",
             StartMarker>>
        \o buffer \o <<EndMarker>>

MaxProjects == 2

ProjectNames == { "UM", "JULES", "LFRIC_APPS" }

RECURSIVE OrdersOfLen(_)
OrdersOfLen(n) ==
    IF n = 0 THEN { <<>> }
    ELSE { Append(l, p) : l \in OrdersOfLen(n - 1), p \in ProjectNames }

Orders ==
    { l \in UNION { OrdersOfLen(n) : n \in 0..MaxProjects } : NoDuplicate(l) }

Range(f) == { f[x] : x \in DOMAIN f }

DiffFailures == { 0, DiffAttempts - 1, DiffAttempts }

Listings == { <<DirSrc, FileSrc>>, <<Dot, FileAdmin>> }

ProjectInputs ==
    { [res |-> r, failures |-> 0, listing |-> <<>>] :
          r \in { "invalid", "IOError", "KeyError" } }
    \cup { [res |-> "valid", failures |-> f, listing |-> l] :
               f \in DiffFailures, l \in Listings }

NoFile == [exists |-> FALSE, lines |-> <<>>]

\* The most uncommitted changes project_details counts.
MaxChanges == 1

MainInit ==
    /\ details \in Orders
    /\ source_params \in [Range(details) -> ProjectInputs]
    /\ init_error \in { None, "IOError", "ValueError" }
    /\ init_error # None => details = <<>>
    /\ owners_readable \in BOOLEAN
    /\ uncommited_changes \in 0..MaxChanges
    /\ init_error # None => uncommited_changes = 0
    /\ job_sources = <<>>
    /\ projects = <<>>
    /\ primary_project = ""
    /\ trac_log = <<>>
    /\ trac_file = NoFile
    /\ stdout = <<>>
    /\ report_exc = None
    /\ exc = None
    /\ write_outcome = None
    /\ mpc = "start"

MainIdle ==
    /\ details = <<>>
    /\ source_params = <<>>
    /\ init_error = None
    /\ owners_readable = FALSE
    /\ uncommited_changes = 0
    /\ job_sources = <<>>
    /\ projects = <<>>
    /\ primary_project = ""
    /\ trac_log = <<>>
    /\ trac_file = NoFile
    /\ stdout = <<>>
    /\ report_exc = None
    /\ exc = None
    /\ write_outcome = None
    /\ mpc = "idle"

\* main up to the end of its first try statement: SuiteReport(...) and the
\* except IOError clause.
main_construct ==
    /\ mpc = "start"
    /\ LET made == JobSources_setup(details, source_params)
           err == IF init_error # None THEN init_error ELSE made.raised
       IN  /\ job_sources' = IF init_error # None THEN <<>>
                             ELSE made.job_sources
           /\ projects' = IF init_error # None THEN <<>> ELSE made.projects
           /\ primary_project' =
                  IF init_error # None THEN ""
                  ELSE JobSources_primary_project(source_params)
           /\ stdout' = IF err = "IOError"
                        THEN Append(stdout, "[ERROR]: IOError") ELSE stdout
           /\ exc' = IF err = "IOError" THEN "SystemExit" ELSE err
           /\ mpc' = IF err = None THEN "constructed"
                     ELSE IF err = "IOError" THEN "exit1" ELSE "raised"
    /\ UNCHANGED <<details, source_params, init_error, owners_readable,
                   uncommited_changes,
                   trac_log, trac_file, report_exc, write_outcome,
                   restOfMain>>

\* suite_report.print_report(trac_log): the sections are written up to the
\* one that raises, if one does.
print_report ==
    /\ mpc = "constructed"
    /\ LET full == ReportSections(primary_project, projects, owners_readable)
       IN  \E cut \in 0..Len(full.lines) :
           \E kind \in { "Exception", "KeyboardInterrupt" } :
              LET raised == IF cut < Len(full.lines) THEN kind
                            ELSE full.raised
              IN  /\ trac_log' = SubSeq(full.lines, 1, cut)
                  /\ report_exc' = raised
                  /\ exc' = raised
                  /\ mpc' = IF IsException(raised) THEN "except"
                            ELSE "finally"
    /\ UNCHANGED <<details, source_params, init_error, owners_readable,
                   uncommited_changes,
                   job_sources, projects, primary_project, trac_file, stdout,
                   write_outcome, restOfMain>>

\* The except Exception clause of main.
main_except ==
    /\ mpc = "except"
    /\ trac_log' = ExceptClause(trac_log)
    /\ mpc' = AfterExcept(report_exc)
    /\ UNCHANGED <<details, source_params, init_error, owners_readable,
                   uncommited_changes,
                   job_sources, projects, primary_project, trac_file, stdout,
                   report_exc, exc, write_outcome, restOfMain>>

\* The finally clause of main: suite_report.write_final_report(trac_log).
write_final_report ==
    /\ mpc = "finally"
    /\ \E outcome \in { "written", "open fails", "write fails" } :
          /\ write_outcome' = outcome
          /\ IF outcome = "written"
             THEN /\ trac_file' = [exists |-> TRUE, lines |-> trac_log]
                  /\ stdout' = stdout
                  /\ exc' = exc
                  /\ mpc' = IF exc = None THEN "exit0" ELSE "raised"
             ELSE /\ trac_file' = IF outcome = "open fails" THEN trac_file
                                  ELSE [exists |-> TRUE, lines |-> <<>>]
                  /\ stdout' = Echo(stdout, trac_log)
                  /\ exc' = "IOError"
                  /\ mpc' = "raised"
    /\ UNCHANGED <<details, source_params, init_error, owners_readable,
                   uncommited_changes,
                   job_sources, projects, primary_project, trac_log,
                   report_exc, restOfMain>>

MainNext ==
    \/ main_construct
    \/ print_report
    \/ main_except
    \/ write_final_report


HasLine(buffer, line) == \E i \in 1..Len(buffer) : buffer[i] = line

\* Standard output holds the buffer between the two markers.
Echoed(out, buffer) ==
    \E i \in 1..Len(out) :
        /\ i + Len(buffer) + 1 <= Len(out)
        /\ out[i] = StartMarker
        /\ SubSeq(out, i + 1, i + Len(buffer)) = buffer
        /\ out[i + Len(buffer) + 1] = EndMarker

\* trac.log holds the buffer.
Written == trac_file.exists /\ trac_file.lines = trac_log

\* The buffer ends with the pointer to the scheduler log and the traceback.
PointerAppended ==
    /\ Len(trac_log) >= 2
    /\ trac_log[Len(trac_log) - 1] = SchedulerLogPointer

Complete == Len(trac_log) > 0 /\ trac_log[Len(trac_log)] = EndOfReport

Terminal == mpc \in { "exit0", "exit1", "raised" }

\* The run finds something that makes SuiteReport(...) raise.
SetupFails ==
    \/ init_error # None
    \/ \E n \in Range(details) : source_params[n].res \in { "IOError", "KeyError" }

\* SuiteReport(...) has returned.
Constructed == mpc \notin { "idle", "start" } /\ ~SetupFails

\* main has ended in its first try statement.
EndedInSetup == mpc \in { "exit1", "raised" } /\ write_outcome = None

\* C5 as stated: when print_report raises, the pointer to the scheduler log is
\* appended to the buffer and the buffer is in trac.log when the error leaves
\* main.
C5_FlushedToDestination ==
    (mpc = "raised" /\ report_exc # None) => (PointerAppended /\ Written)

\* C5 as amended: when print_report raises an Exception, the pointer is
\* appended to the buffer before write_final_report runs, and when an error
\* leaves main the buffer is in trac.log, or between the markers on standard
\* output when the write failed; an exception that is not an Exception gets
\* the flush without the pointer.
C5_FlushedOrEchoed ==
    /\ (mpc \in { "finally", "raised" } /\ IsException(report_exc))
           => PointerAppended
    /\ (mpc = "raised" /\ report_exc # None)
           => /\ exc # None
              /\ Written \/ Echoed(stdout, trac_log)
              /\ ~IsException(report_exc) => ~PointerAppended

C5_Witness ==
    /\ mpc = "raised"
    /\ IsException(report_exc)
    /\ write_outcome = "written"
    /\ Len(trac_log) > 2
    /\ PointerAppended

\* C6 as stated: every run, the ones whose set-up fails included, ends with a
\* report delivered, complete or partial with the pointer to the scheduler
\* log.
C6_AlwaysAReport ==
    Terminal =>
        /\ Written \/ Echoed(stdout, trac_log)
        /\ Complete \/ PointerAppended

\* C6 as amended: a run whose set-up succeeds ends with the buffer delivered,
\* to trac.log or to standard output, complete or, when print_report raised an
\* Exception, partial with the pointer; a run whose set-up fails delivers no
\* report at all.
C6_ReportWhenConstructed ==
    /\ (Terminal /\ ~SetupFails)
           => /\ Written \/ Echoed(stdout, trac_log)
              /\ report_exc = None => Complete
              /\ IsException(report_exc) => PointerAppended
    /\ (Terminal /\ SetupFails)
           => /\ EndedInSetup
              /\ ~trac_file.exists
              /\ trac_log = <<>>
              /\ ~HasLine(stdout, StartMarker)

C6_Witness ==
    /\ mpc = "exit0"
    /\ Len(details) = 2
    /\ Complete
    /\ Written

\* C7: after JobSources.setup a source whose mirror could not be confirmed is
\* in neither job_sources nor projects, and membership, item lookup and
\* iteration agree: they know exactly the valid projects.
C7_InvalidRemoved ==
    Constructed =>
        /\ \A n \in Range(details) :
              /\ JobSources_contains(job_sources, n)
                     <=> source_params[n].res = "valid"
              /\ JobSources_getitem_defined(projects, n)
                     <=> source_params[n].res = "valid"
              /\ n \in JobSources_iter(projects)
                     <=> source_params[n].res = "valid"
        /\ DOMAIN job_sources = DOMAIN projects
        /\ \A n \in JobSources_iter(projects) : projects[n].valid

C7_Witness ==
    /\ mpc = "constructed"
    /\ \E n, m \in Range(details) :
          /\ source_params[n].res = "invalid"
          /\ source_params[m].res = "valid"
          /\ m \in DOMAIN projects
          /\ n \notin DOMAIN job_sources

\* All five attempts at the branch diff of source n fail.
AllAttemptsFail(n) ==
    /\ n \in Range(details)
    /\ source_params[n].res = "valid"
    /\ source_params[n].failures >= DiffAttempts

C9_WriteFailureEchoes ==
    write_outcome \in { "open fails", "write fails" }
        => Echoed(stdout, trac_log)

C9_Witness ==
    /\ write_outcome = "write fails"
    /\ Len(trac_log) > 2
    /\ Echoed(stdout, trac_log)

\* The positions of a line in the buffer.
PositionsOf(line) == { i \in 1..Len(trac_log) : trac_log[i] = line }

\* Every line a comes before every line b.
Before(a, b) ==
    \A i \in PositionsOf(a) : \A j \in PositionsOf(b) : i < j

Once(line) == Cardinality(PositionsOf(line)) = 1

ApprovalLines == { ApprovalsTitle, ConfigApprovals }

\* print_report has returned.
SynthesisCompleted ==
    /\ report_exc = None
    /\ mpc \in { "finally", "exit0" } \/ (mpc = "raised" /\ ~EndedInSetup)

\* C12: when print_report completes, the buffer holds the header, the project
\* table and the task tables once each and in that order, any approvals table
\* between the project table and the task tables, and approvals tables only
\* when the primary project is UM.
C12_SectionOrder ==
    SynthesisCompleted =>
        /\ Once("report_header")
        /\ Once("project table")
        /\ Once("'''All Tasks'''")
        /\ Once("task_table")
        /\ Before("report_header", "project table")
        /\ Before("project table", "'''All Tasks'''")
        /\ Before("'''All Tasks'''", "task_table")
        /\ \A a \in ApprovalLines :
              /\ Before("project table", a)
              /\ Before(a, "'''All Tasks'''")
              /\ PositionsOf(a) # {} => primary_project = "UM"
        /\ trac_log[Len(trac_log)] = EndOfReport

\* A completed report of a UM suite with both approvals tables.
C12_Witness ==
    /\ mpc = "exit0"
    /\ primary_project = "UM"
    /\ Once(ApprovalsTitle)
    /\ Once(ConfigApprovals)
    /\ Once("task_table")

Precedence == <<"LFRIC_APPS", "UM", "JULES", "UKCA">>

\* The first name of the precedence list among the keys, UNKNOWN when there
\* is none.
FirstKey(keys) ==
    IF \E i \in 1..Len(Precedence) : Precedence[i] \in keys
    THEN Precedence[CHOOSE i \in 1..Len(Precedence) :
                        /\ Precedence[i] \in keys
                        /\ \A j \in 1..(i - 1) : Precedence[j] \notin keys]
    ELSE "UNKNOWN"

\* C13: the primary project of the report is the first of LFRIC_APPS, UM,
\* JULES, UKCA that is a key of the job sources, UNKNOWN when none is.
C13_PrimaryIsFirstKey ==
    Constructed => primary_project = FirstKey(DOMAIN job_sources)

\* print_report has run and no section other than the approvals has raised.
ApprovalStageRan ==
    /\ Constructed
    /\ mpc \notin { "constructed" }
    /\ report_exc \in { None, "KeyError", "IndexError" }
    /\ primary_project = "UM"

\* C23: when the owners file cannot be obtained, the UM project being one
\* of the job sources, the report is not aborted and its approvals section
\* is the table that says that no approvals are required.
C23_DegradedApprovalsTable ==
    (/\ ApprovalStageRan
     /\ ~owners_readable
     /\ JobSources_getitem_defined(projects, "UM")) =>
        /\ report_exc = None
        /\ HasLine(trac_log, ApprovalsTitle)
        /\ HasLine(trac_log, NoneRequired)

\* C28: the primary project recorded for the report is UNKNOWN or names a
\* project that JobSources.setup has kept: it is a key of the job sources
\* and a valid Project is held for it, so that a primary project of UM has
\* a UM project behind it.
C28_PrimarySurvivedSetup ==
    Constructed =>
        \/ primary_project = "UNKNOWN"
        \/ /\ JobSources_contains(job_sources, primary_project)
           /\ JobSources_getitem_defined(projects, primary_project)

\* C29: the count of uncommitted changes that project_details returns is
\* what the report tests: when it is greater than zero, the report holds
\* the warning that it is not valid for review.
C29_WarningWhenUncommitted ==
    (SynthesisCompleted /\ uncommited_changes > 0) =>
        HasLine(trac_log, UncommittedWarning)

-----------------------------------------------------------------------------
(* Project.get_revisions, on the parameters Project.__init__ has set.      *)

\* A parameter that is None.
NoUrl == <<None>>

\* The URLs of the owning JobSources.
ProjectUrls == <<<<UmX, UmSrsUrl>>, <<UmXm, UmMirrorUrl>>>>

\* Project.__init__ up to the call of get_revisions: parent is what
\* get_parent finds for the mirror.
InitialParams(target, parent) ==
    LET loc == convert_to_srs(ProjectUrls, target)
    IN  [repo_loc |-> loc,
         repo_mirror |-> convert_to_mirror(ProjectUrls, loc),
         parent_mirror |-> parent,
         parent_loc |-> IF parent = NoUrl THEN NoUrl
                        ELSE convert_to_srs(ProjectUrls, parent)]

LocOf(p, location) == IF location = "repo" THEN p.repo_loc ELSE p.parent_loc

MirrorOf(p, location) ==
    IF location = "repo" THEN p.repo_mirror ELSE p.parent_mirror

WithRevision(p, location, revision) ==
    IF location = "repo"
    THEN [p EXCEPT !.repo_loc = @ \o <<"@">> \o revision,
                   !.repo_mirror = @ \o <<"@">> \o revision]
    ELSE [p EXCEPT !.parent_loc = @ \o <<"@">> \o revision,
                   !.parent_mirror = @ \o <<"@">> \o revision]

\* The test for the head revision query with the pin not looked at.
NeedsHeadRevisionColonOnly(u) == HasChar(":", u)

\* if ":" in url and "@" not in url
NeedsHeadRevision(u) == HasChar(":", u) /\ ~HasChar("@", u)

\* One pass of the loop of get_revisions; head is what
\* _get_current_head_revision does: it raises, or gives the revision, the
\* empty string when it finds none.
RevisionStep(acc, location, head) ==
    LET loc_url == LocOf(acc.params, location)
        mirror_url == MirrorOf(acc.params, location)
    IN  IF acc.raised \/ loc_url = NoUrl \/ mirror_url = NoUrl THEN acc
        ELSE IF NeedsHeadRevision(loc_url)
        THEN IF head.raises
             THEN [acc EXCEPT !.queries = Append(@, location),
                              !.raised = TRUE]
             ELSE [acc EXCEPT !.queries = Append(@, location),
                              !.params = WithRevision(@, location,
                                                      head.revision)]
        ELSE acc

\* for location in ("repo", "parent")
RevisionLoop(p, head) ==
    RevisionStep(
        RevisionStep([params |-> p, queries |-> <<>>, raised |-> FALSE],
                     "repo", head),
        "parent", head)

Parents ==
    { NoUrl, UmMirrorUrl \o SlashTrunk, UmMirrorUrl \o SlashTrunk \o Pin }

HeadRevisions ==
    { [raises |-> TRUE, revision |-> <<>>],
      [raises |-> FALSE, revision |-> <<>>],
      [raises |-> FALSE, revision |-> <<"3", "4">>] }

\* A working copy named by its path alone.
LocalPath ==
    <<"/", "h", "o", "m", "e", "/", "w", "c">>

Targets == Urls \cup { LocalPath, LocalPath \o Pin }

RevInit ==
    /\ \E target \in Targets, parent \in Parents :
          params0 = InitialParams(target, parent)
    /\ params = params0
    /\ head_revision \in HeadRevisions
    /\ head_queries = <<>>
    /\ rpc = "start"

RevIdle ==
    /\ params0 = <<>>
    /\ params = <<>>
    /\ head_revision = [raises |-> FALSE, revision |-> <<>>]
    /\ head_queries = <<>>
    /\ rpc = "idle"

get_revisions ==
    /\ rpc = "start"
    /\ LET got == RevisionLoop(params, head_revision)
       IN  /\ params' = got.params
           /\ head_queries' = got.queries
           /\ rpc' = IF got.raised THEN "raised" ELSE "returned"
    /\ UNCHANGED <<params0, head_revision, restOfRev>>

RevNext == get_revisions

Pinned(p, location) ==
    LocOf(p, location) # NoUrl /\ HasChar("@", LocOf(p, location))

\* C10: for a location that already holds '@', get_revisions asks for no head
\* revision and leaves the location and its mirror as they were.
C10_PinnedUntouched ==
    rpc \in { "returned", "raised" } =>
        \A location \in { "repo", "parent" } :
            Pinned(params0, location) =>
                /\ ~HasLine(head_queries, location)
                /\ LocOf(params, location) = LocOf(params0, location)
                /\ MirrorOf(params, location) = MirrorOf(params0, location)

\* A location ends with '@' and a revision that is not empty.
RevisionExact(u) ==
    \E i \in 1..(Len(u) - 1) : u[i] = "@" /\ ~HasChar("@", SubSeq(u, i + 1, Len(u)))

\* C15: after get_revisions every location that is there and held no '@' has
\* the head revision of the repository appended, in both of its forms, and
\* so names one revision.
C15_HeadRevisionAppended ==
    rpc = "returned" =>
        \A location \in { "repo", "parent" } :
            (/\ LocOf(params0, location) # NoUrl
             /\ MirrorOf(params0, location) # NoUrl
             /\ ~HasChar("@", LocOf(params0, location)))
                => /\ HasLine(head_queries, location)
                   /\ LocOf(params, location) =
                          LocOf(params0, location) \o <<"@">>
                              \o head_revision.revision
                   /\ MirrorOf(params, location) =
                          MirrorOf(params0, location) \o <<"@">>
                              \o head_revision.revision
                   /\ RevisionExact(LocOf(params, location))
                   /\ RevisionExact(MirrorOf(params, location))

\* A pinned repository location with a ':' in it, next to a parent that is
\* not pinned and gets its head revision.
C10_Witness ==
    /\ rpc = "returned"
    /\ Pinned(params0, "repo")
    /\ HasChar(":", params0.repo_loc)
    /\ params.repo_mirror = params0.repo_mirror
    /\ head_queries = <<"parent">>

-----------------------------------------------------------------------------
(* SuiteReport.__init__: only_common_groups, ahead of generate_task_table. *)

GroupAll ==
    <<"a", "l", "l">>
GroupDeveloper ==
    <<"d", "e", "v", "e", "l", "o", "p", "e", "r">>
GroupNightlySpaced ==
    <<" ", "n", "i", "g", "h", "t", "l", "y">>
GroupMine ==
    <<"m", "y", "g", "r", "o", "u", "p">>
MetoGroups ==
    { <<"a", "l", "l">>,
      <<"n", "i", "g", "h", "t", "l", "y">>,
      <<"d", "e", "v", "e", "l", "o", "p", "e", "r">>,
      <<"x", "c", "4", "0">>,
      <<"e", "x", "1", "a">>,
      <<"s", "p", "i", "c", "e">>,
      <<"x", "c", "4", "0", "_", "n", "i", "g", "h", "t", "l", "y">>,
      <<"e", "x", "1", "a", "_", "n", "i", "g", "h", "t", "l", "y">>,
      <<"s", "p", "i", "c", "e", "_", "n", "i", "g", "h", "t", "l", "y">>,
      <<"x", "c", "4", "0", "_", "d", "e", "v", "e", "l", "o", "p", "e",
        "r">>,
      <<"e", "x", "1", "a", "_", "d", "e", "v", "e", "l", "o", "p", "e",
        "r">>,
      <<"s", "p", "i", "c", "e", "_", "d", "e", "v", "e", "l", "o", "p",
        "e", "r">>,
      <<"u", "k", "c", "a">>,
      <<"r", "e", "c", "o", "n">>,
      <<"j", "u", "l", "e", "s">>,
      <<"x", "c", "4", "0", "_", "u", "k", "c", "a">>,
      <<"e", "x", "1", "a", "_", "u", "k", "c", "a">>,
      <<"s", "p", "i", "c", "e", "_", "u", "k", "c", "a">>,
      <<"x", "c", "4", "0", "_", "j", "u", "l", "e", "s">>,
      <<"e", "x", "1", "a", "_", "j", "u", "l", "e", "s">>,
      <<"s", "p", "i", "c", "e", "_", "j", "u", "l", "e", "s">> }

\* COMMON_GROUPS, for the sites of the model; "uoleeds" is a site of FCM that
\* has no entry.
COMMON_GROUPS ==
    ("meto" :> MetoGroups) @@ ("vm" :> {}) @@ ("Unknown" :> {})

Sites == { "meto", "vm", "uoleeds" }

\* str.strip() of blanks
RECURSIVE StripSpaces(_)
StripSpaces(s) ==
    IF Len(s) > 0 /\ s[1] = " " THEN StripSpaces(Tail(s))
    ELSE IF Len(s) > 0 /\ s[Len(s)] = " "
    THEN StripSpaces(SubSeq(s, 1, Len(s) - 1))
    ELSE s

InGroups(g, gs) == \E i \in 1..Len(gs) : gs[i] = g

\* The test with any() in the place of all().
OnlyCommonGroupsAny(s, gs) ==
    IF s = "meto" /\ InGroups(GroupAll, gs)
    THEN [value |-> TRUE, raised |-> FALSE]
    ELSE IF Len(gs) = 0 THEN [value |-> FALSE, raised |-> FALSE]
    ELSE IF s \notin DOMAIN COMMON_GROUPS
    THEN [value |-> FALSE, raised |-> TRUE]
    ELSE [value |-> \E i \in 1..Len(gs) :
                        StripSpaces(gs[i]) \in COMMON_GROUPS[s],
          raised |-> FALSE]

\* The last statement of SuiteReport.__init__: all() of no group is True and
\* never looks the site up; COMMON_GROUPS[site] raises KeyError otherwise.
OnlyCommonGroups(s, gs) ==
    IF s = "meto" /\ InGroups(GroupAll, gs)
    THEN [value |-> TRUE, raised |-> FALSE]
    ELSE IF Len(gs) = 0 THEN [value |-> TRUE, raised |-> FALSE]
    ELSE IF s \notin DOMAIN COMMON_GROUPS
    THEN [value |-> FALSE, raised |-> TRUE]
    ELSE [value |-> \A i \in 1..Len(gs) :
                        StripSpaces(gs[i]) \in COMMON_GROUPS[s],
          raised |-> FALSE]

MaxGroups == 2

GroupPool == { GroupAll, GroupDeveloper, GroupNightlySpaced, GroupMine }

RECURSIVE GroupListsOfLen(_)
GroupListsOfLen(n) ==
    IF n = 0 THEN { <<>> }
    ELSE { Append(l, g) : l \in GroupListsOfLen(n - 1), g \in GroupPool }

GroupLists ==
    { l \in UNION { GroupListsOfLen(n) : n \in 0..MaxGroups } :
          NoDuplicate(l) }

GroupTaskMaps ==
    UNION { [S -> { Succeeded, Failed }] :
              S \in { T \in SUBSET { TaskRoseAnaOmp, TaskAtmos,
                                     TaskHousekeeping, TaskGatekeeper,
                                     TaskMonitor } :
                          Cardinality(T) <= MaxTasks } }

GroupTaskInit ==
    /\ site \in Sites
    /\ groups \in GroupLists
    /\ data \in GroupTaskMaps
    /\ verbosity \in 0..MaxVerbosity
    /\ only_common_groups = FALSE
    /\ sort_by_name = FALSE
    /\ status_counts = (Failed :> 0)
    /\ hidden_counts = <<>>
    /\ task_table = <<>>
    /\ failed_configs = <<>>
    /\ hidden = TRUE
    /\ tpc = "init"

GroupIdle ==
    /\ site = "Unknown"
    /\ groups = <<>>

\* The end of SuiteReport.__init__.
init_only_common_groups ==
    /\ tpc = "init"
    /\ LET got == OnlyCommonGroups(site, groups)
       IN  /\ only_common_groups' = IF got.raised THEN only_common_groups
                                    ELSE got.value
           /\ tpc' = IF got.raised THEN "raised" ELSE "start"
    /\ UNCHANGED <<data, verbosity, sort_by_name, status_counts,
                   hidden_counts, task_table, failed_configs, hidden,
                   restOfTask>>

GroupTaskNext ==
    \/ init_only_common_groups
    \/ generate_task_table

\* C30: for every site of the FCM table and every list of run-groups the
\* construction of the SuiteReport works only_common_groups out as a
\* boolean and no key is missing: the site has its entry in COMMON_GROUPS.
C30_EverySiteHasCommonGroups ==
    (site \in Sites /\ tpc # "init") =>
        /\ tpc # "raised"
        /\ only_common_groups \in BOOLEAN
        /\ site \in DOMAIN COMMON_GROUPS

\* Some run-group of the suite is not in the common groups of its site.
OutsideAllowlist ==
    /\ site \in DOMAIN COMMON_GROUPS
    /\ \E i \in 1..Len(groups) : StripSpaces(groups[i]) \notin COMMON_GROUPS[site]

HasRow(t, highlight) ==
    \E i \in 1..Len(task_table) :
        task_table[i][1] = t /\ task_table[i][2] = highlight

IsSensitive(t) ==
    /\ Contains(RoseAna, t)
    /\ \E i \in 1..Len(HIGHLIGHT_ROSE_ANA_FAILS) :
          Contains(HIGHLIGHT_ROSE_ANA_FAILS[i], t)

CountOf(d, k) == IF k \in DOMAIN d THEN d[k] ELSE 0

\* The tasks of the three categories that are hidden by name.
HiddenByName(t) ==
    \/ StartsWith(Housekeep, t)
    \/ StartsWith(Gatekeeper, t)
    \/ StartsWith(Monitor, t)

\* What C11 says of the finished table.
ItemizedAndTallied(tasks) ==
    /\ \A t \in tasks : data[t] = Succeeded => HasRow(t, "plain")
    /\ \A t \in tasks :
          (data[t] = Failed /\ IsSensitive(t)) => HasRow(t, "pink")
    /\ (/\ NumTasks = 2
        /\ \E t, u \in DOMAIN data :
              /\ data[t] = Failed /\ IsSensitive(t)
              /\ data[u] = Succeeded)
           => /\ CountOf(status_counts, PINK_FAIL_TEXT) = 1
              /\ CountOf(status_counts, Succeeded) = 1

-----------------------------------------------------------------------------
(* Project.get_altered_files_list on the lists the branch diff can give.   *)

DirBin ==
    <<"b", "i", "n">>

MaxListing == 3

ListingPool == { Dot, DirSrc, DirBin, FileSrc, FileAdmin }

RECURSIVE ListingsOfLen(_)
ListingsOfLen(n) ==
    IF n = 0 THEN { <<>> }
    ELSE { Append(l, f) : l \in ListingsOfLen(n - 1), f \in ListingPool }

\* The diff names a path once.
DiffListings ==
    { l \in UNION { ListingsOfLen(n) : n \in 0..MaxListing } :
          NoDuplicate(l) }

DiffInit ==
    /\ diff_listing \in DiffListings
    /\ diff_failures \in DiffFailures
    /\ bdiff_result = <<>>
    /\ dpc = "start"

DiffIdle ==
    /\ diff_listing = <<>>
    /\ diff_failures = 0
    /\ bdiff_result = <<>>
    /\ dpc = "idle"

altered_files_list ==
    /\ dpc = "start"
    /\ LET got == get_altered_files_list(diff_failures, diff_listing)
       IN  /\ bdiff_result' = got.files
           /\ dpc' = IF got.raised = None THEN "returned" ELSE "raised"
    /\ UNCHANGED <<diff_listing, diff_failures, restOfDiff>>

DiffNext == altered_files_list

\* C14: the list returned holds no "." and no entry whose last path component
\* is without a file extension.
C14_OnlyFiles ==
    dpc = "returned" =>
        \A i \in 1..Len(bdiff_result) :
            /\ bdiff_result[i] # Dot
            /\ HasChar(".", LastComponent(bdiff_result[i]))

-----------------------------------------------------------------------------
(* Project.get_links: the Trac links of the repository and of its parent.  *)

Svn ==
    <<"s", "v", "n">>
Trac ==
    <<"t", "r", "a", "c">>
Browser ==
    <<"b", "r", "o", "w", "s", "e", "r">>
SlashSvnSlash ==
    <<"/", "s", "v", "n", "/">>
RevQuery ==
    <<"?", "r", "e", "v", "=">>
RevEquals ==
    <<"r", "e", "v", "=">>
FileScheme ==
    <<"f", "i", "l", "e", ":", "/">>
FileUrl ==
    <<"f", "i", "l", "e", ":", "/", "/", "/", "w", "c", "/", "s", "v", "n",
      "/", "u", "m">>
PinHead ==
    <<"@", "H", "E", "A", "D">>
LayoutRoot ==
    <<"r", "o", "o", "t", ":", " ", "r">>
LayoutProject ==
    <<"p", "r", "o", "j", "e", "c", "t", ":", " ", "u", "m">>
LayoutPath ==
    <<"p", "a", "t", "h", ":", " ", "p">>
LayoutPegRev ==
    <<"p", "e", "g", "_", "r", "e", "v", ":", " ", " ", "1", "2">>
RootColon ==
    <<"r", "o", "o", "t", ":">>
ProjectColon ==
    <<"p", "r", "o", "j", "e", "c", "t", ":">>
PathColon ==
    <<"p", "a", "t", "h", ":">>
PegRevColon ==
    <<"p", "e", "g", "_", "r", "e", "v", ":">>
OtherSrsUrl ==
    <<"h", "t", "t", "p", "s", ":", "/", "/", "o", "t", "h", "e", "r", ".",
      "m", "o", "/", "s", "v", "n", "/", "e", "x", "t">>

\* re.sub(lit, repl, s) for a pattern without special characters.
RECURSIVE ReplaceFrom(_, _, _, _)
ReplaceFrom(lit, repl, s, i) ==
    IF i > Len(s) THEN <<>>
    ELSE IF LitAt(lit, s, i)
    THEN repl \o ReplaceFrom(lit, repl, s, i + Len(lit))
    ELSE <<s[i]>> \o ReplaceFrom(lit, repl, s, i + 1)

ReplaceAll(lit, repl, s) == ReplaceFrom(lit, repl, s, 1)

\* s.split("/")
RECURSIVE SplitFrom(_, _, _)
SplitFrom(s, i, element) ==
    IF i > Len(s) THEN <<element>>
    ELSE IF s[i] = "/" THEN <<element>> \o SplitFrom(s, i + 1, <<>>)
    ELSE SplitFrom(s, i + 1, Append(element, s[i]))

Split(s) == SplitFrom(s, 1, <<>>)

\* "/".join(elements)
RECURSIVE Join(_)
Join(elements) ==
    IF Len(elements) = 0 THEN <<>>
    ELSE IF Len(elements) = 1 THEN elements[1]
    ELSE elements[1] \o <<"/">> \o Join(Tail(elements))

\* elements.index(x), counted from 0.
IndexOf(elements, x) ==
    (CHOOSE i \in 1..Len(elements) :
        /\ elements[i] = x
        /\ \A j \in 1..(i - 1) : elements[j] # x) - 1

\* elements.insert(k, x)
Insert(elements, k, x) ==
    IF k >= Len(elements) THEN Append(elements, x)
    ELSE SubSeq(elements, 1, k) \o <<x>> \o SubSeq(elements, k + 1, Len(elements))

\* "svn" turned into "trac" and "browser" put two elements after it.
TracBrowser(u) ==
    LET link_2_url == ReplaceAll(Svn, Trac, u)
        elements == Split(link_2_url)
    IN  Join(Insert(elements, IndexOf(elements, Trac) + 2, Browser))

_url_to_trac_link(u) ==
    IF Contains(SlashSvnSlash, u)
    THEN ReplaceAll(<<"@">>, RevQuery, TracBrowser(u))
    ELSE NoUrl

\* The loop of convert_to_link from entry i on.
RECURSIVE LinkFrom(_, _, _)
LinkFrom(K, i, u) ==
    IF i > Len(K) THEN NoUrl
    ELSE IF Search(K[i][2], u) THEN _url_to_trac_link(u)
    ELSE LinkFrom(K, i + 1, u)

convert_to_link(K, u) ==
    IF u = NoUrl THEN NoUrl ELSE LinkFrom(K, 1, u)

\* The text of a line after the label and the blanks that follow it.
RECURSIVE StripBlanks(_)
StripBlanks(s) ==
    IF Len(s) > 0 /\ s[1] = " " THEN StripBlanks(Tail(s)) ELSE s

AfterLabel(label, line) ==
    StripBlanks(SubSeq(line, Len(label) + 1, Len(line)))

\* The value of the last line with the label, for the loop that reads every
\* line of loc-layout.
HasLabel(lines, label) == \E i \in 1..Len(lines) : StartsWith(label, lines[i])

LastLabelled(lines, label) ==
    LET i == CHOOSE k \in 1..Len(lines) :
                 /\ StartsWith(label, lines[k])
                 /\ \A j \in (k + 1)..Len(lines) : ~StartsWith(label, lines[j])
    IN  AfterLabel(label, lines[i])

FirstLabelled(lines, label) ==
    LET i == CHOOSE k \in 1..Len(lines) :
                 /\ StartsWith(label, lines[k])
                 /\ \A j \in 1..(k - 1) : ~StartsWith(label, lines[j])
    IN  AfterLabel(label, lines[i])

\* convert_link_from_layout: [link, queries, raised], queries being the
\* locations loc-layout was run on.
convert_link_from_layout(u, mirror_url, reply) ==
    IF u = NoUrl \/ mirror_url = NoUrl \/ StartsWith(FileScheme, u)
    THEN [link |-> NoUrl, queries |-> <<>>, raised |-> FALSE]
    ELSE IF reply.raises
    THEN [link |-> NoUrl, queries |-> <<mirror_url>>, raised |-> TRUE]
    ELSE LET lines == reply.stdout
             found == /\ HasLabel(lines, RootColon)
                      /\ HasLabel(lines, ProjectColon)
                      /\ HasLabel(lines, PathColon)
         IN  [link |-> IF found /\ Contains(SlashSvnSlash, u)
                       THEN IF HasLabel(lines, PegRevColon)
                            THEN TracBrowser(u) \o RevQuery
                                     \o LastLabelled(lines, PegRevColon)
                            ELSE TracBrowser(u)
                       ELSE NoUrl,
              queries |-> <<mirror_url>>,
              raised |-> FALSE]

\* get_revision_from_layout: [none, revision, queries, raised]
get_revision_from_layout(mirror_url, reply) ==
    IF mirror_url = NoUrl
    THEN [none |-> TRUE, revision |-> <<>>, queries |-> <<>>, raised |-> FALSE]
    ELSE IF reply.raises
    THEN [none |-> TRUE, revision |-> <<>>, queries |-> <<mirror_url>>,
          raised |-> TRUE]
    ELSE IF HasLabel(reply.stdout, PegRevColon)
    THEN [none |-> FALSE, revision |-> FirstLabelled(reply.stdout, PegRevColon),
          queries |-> <<mirror_url>>, raised |-> FALSE]
    ELSE [none |-> TRUE, revision |-> <<>>, queries |-> <<mirror_url>>,
          raised |-> FALSE]

\* [a-zA-z]: the letters and the characters between "Z" and "a" (of which
\* the backslash and the grave accent are in no location of the model).
RangeAz ==
    { "a", "b", "c", "d", "e", "f", "g", "h", "i", "j", "k", "l", "m", "n",
      "o", "p", "q", "r", "s", "t", "u", "v", "w", "x", "y", "z",
      "A", "B", "C", "D", "E", "F", "G", "H", "I", "J", "K", "L", "M", "N",
      "O", "P", "Q", "R", "S", "T", "U", "V", "W", "X", "Y", "Z",
      "[", "]", "^", "_" }

\* [a-zA-z0-9.]
RevisionChars ==
    RangeAz \cup { "0", "1", "2", "3", "4", "5", "6", "7", "8", "9", "." }

\* re.search(r"rev=[a-zA-z]", link)
HasKeywordRevision(link) ==
    \E i \in 1..Len(link) :
        /\ LitAt(RevEquals, link, i)
        /\ i + Len(RevEquals) <= Len(link)
        /\ link[i + Len(RevEquals)] \in RangeAz

\* The end of the run of revision characters that starts at i.
RECURSIVE RunEnd(_, _)
RunEnd(s, i) ==
    IF i <= Len(s) /\ s[i] \in RevisionChars THEN RunEnd(s, i + 1) ELSE i

\* re.sub(r"rev=[a-zA-z0-9.]+", "rev=" + revision, link)
RECURSIVE SubRevisionFrom(_, _, _)
SubRevisionFrom(revision, link, i) ==
    IF i > Len(link) THEN <<>>
    ELSE IF /\ LitAt(RevEquals, link, i)
            /\ i + Len(RevEquals) <= Len(link)
            /\ link[i + Len(RevEquals)] \in RevisionChars
    THEN RevEquals \o revision
             \o SubRevisionFrom(revision, link, RunEnd(link, i + Len(RevEquals)))
    ELSE <<link[i]>> \o SubRevisionFrom(revision, link, i + 1)

\* The location handed to convert_link_from_layout for the repository:
\* the link that was just found to be None.
RepoLayoutArgument(p, repo_link) == repo_link

\* get_links, whole: [repo_link, parent_link, queries, raised].
GetLinks(K, p, reply) ==
    LET direct == convert_to_link(K, p.repo_loc)
        repo == IF direct = NoUrl
                THEN convert_link_from_layout(RepoLayoutArgument(p, direct),
                                              p.repo_mirror, reply)
                ELSE [link |-> direct, queries |-> <<>>, raised |-> FALSE]
        parent_direct == convert_to_link(K, p.parent_loc)
        parent == IF parent_direct = NoUrl
                  THEN convert_link_from_layout(p.parent_loc, p.parent_mirror,
                                                reply)
                  ELSE [link |-> parent_direct, queries |-> <<>>,
                        raised |-> FALSE]
        final == IF repo.link # NoUrl /\ HasKeywordRevision(repo.link)
                 THEN get_revision_from_layout(p.repo_mirror, reply)
                 ELSE [none |-> FALSE, revision |-> <<>>, queries |-> <<>>,
                       raised |-> FALSE]
    IN  IF repo.raised
        THEN [repo_link |-> NoUrl, parent_link |-> NoUrl,
              queries |-> repo.queries, raised |-> TRUE]
        ELSE IF parent.raised
        THEN [repo_link |-> repo.link, parent_link |-> NoUrl,
              queries |-> repo.queries \o parent.queries, raised |-> TRUE]
        ELSE IF repo.link # NoUrl /\ HasKeywordRevision(repo.link)
        THEN IF final.raised \/ final.none
             \* "rev=" + None is a TypeError.
             THEN [repo_link |-> repo.link, parent_link |-> parent.link,
                   queries |-> repo.queries \o parent.queries \o final.queries,
                   raised |-> TRUE]
             ELSE [repo_link |-> SubRevisionFrom(final.revision, repo.link, 1),
                   parent_link |-> parent.link,
                   queries |-> repo.queries \o parent.queries \o final.queries,
                   raised |-> FALSE]
        ELSE [repo_link |-> repo.link, parent_link |-> parent.link,
              queries |-> repo.queries \o parent.queries, raised |-> FALSE]

\* The keyword tables of the owning JobSources: none, the UM's, and the
\* UM's with the mirror entry first.
LinkTables ==
    { <<>>, ProjectUrls, <<<<UmXm, UmMirrorUrl>>, <<UmX, UmSrsUrl>>>> }

\* The tested sources: known and unknown repositories, with and without a
\* pin, a keyword, a working copy and a file URL.
LinkTargets ==
    { UmSrsUrl \o SlashTrunk, UmSrsUrl \o BranchPath \o Pin,
      UmSrsUrl \o SlashTrunk \o PinHead,
      OtherSrsUrl \o SlashTrunk, OtherSrsUrl \o BranchPath \o Pin,
      OtherSrsUrl \o SlashTrunk \o PinHead,
      FcmColon \o UmX \o SufTr, WorkingCopy, FileUrl }

LinkParents ==
    { NoUrl, UmMirrorUrl \o SlashTrunk \o Pin, OtherSrsUrl \o SlashTrunk,
      OtherSrsUrl \o SlashTrunk \o Pin }

\* What `fcm loc-layout` answers.
LayoutReplies ==
    { [raises |-> TRUE, stdout |-> <<>>],
      [raises |-> FALSE, stdout |-> <<<<>>>>],
      [raises |-> FALSE, stdout |-> <<LayoutRoot, LayoutPath, <<>>>>],
      [raises |-> FALSE, stdout |-> <<LayoutRoot, LayoutProject, LayoutPath, <<>>>>],
      [raises |-> FALSE,
       stdout |-> <<LayoutRoot, LayoutProject, LayoutPath, LayoutPegRev, <<>>>>] }

\* Project.__init__ up to the call of get_links, for a keyword table K.
LinkParams(K, target, parent) ==
    LET loc == convert_to_srs(K, target)
    IN  [repo_loc |-> loc,
         repo_mirror |-> convert_to_mirror(K, loc),
         parent_mirror |-> parent,
         parent_loc |-> IF parent = NoUrl THEN NoUrl
                        ELSE convert_to_srs(K, parent)]

NoLinks ==
    [repo_link |-> NoUrl, parent_link |-> NoUrl, queries |-> <<>>,
     raised |-> FALSE]

LinkInit ==
    /\ link_table \in LinkTables
    /\ \E target \in LinkTargets, parent \in LinkParents :
           link_params = LinkParams(link_table, target, parent)
    /\ layout \in LayoutReplies
    /\ links = NoLinks
    /\ lpc = "start"

LinkIdle ==
    /\ link_table = <<>>
    /\ link_params = <<>>
    /\ layout = <<>>
    /\ links = <<>>
    /\ lpc = "idle"

get_links ==
    /\ lpc = "start"
    /\ links' = GetLinks(link_table, link_params, layout)
    /\ lpc' = IF links'.raised THEN "raised" ELSE "returned"
    /\ UNCHANGED <<link_table, link_params, layout, restOfLink>>

LinkNext == get_links

\* The layout names root, project and path.
LayoutComplete ==
    /\ ~layout.raises
    /\ HasLabel(layout.stdout, RootColon)
    /\ HasLabel(layout.stdout, ProjectColon)
    /\ HasLabel(layout.stdout, PathColon)

\* The link rebuilt from an /svn/ location and the layout.
Reconstructed(u) ==
    IF HasLabel(layout.stdout, PegRevColon)
    THEN TracBrowser(u) \o RevQuery \o LastLabelled(layout.stdout, PegRevColon)
    ELSE TracBrowser(u)

\* C16: when the keyword table gives no link for the repository location,
\* get_links asks the VCS for the layout of the location and, the layout
\* naming root, project and path and the location being an /svn/ URL, the
\* repository link is the browsable URL rebuilt from them; the same holds
\* of the parent link.
C16_LayoutFallback ==
    lpc = "returned" =>
        /\ (/\ convert_to_link(link_table, link_params.repo_loc) = NoUrl
            /\ link_params.repo_loc # NoUrl
            /\ link_params.repo_mirror # NoUrl
            /\ ~StartsWith(FileScheme, link_params.repo_loc))
               => /\ HasLine(links.queries, link_params.repo_mirror)
                  /\ (LayoutComplete
                      /\ Contains(SlashSvnSlash, link_params.repo_loc))
                         => links.repo_link = Reconstructed(link_params.repo_loc)
        /\ (/\ convert_to_link(link_table, link_params.parent_loc) = NoUrl
            /\ link_params.parent_loc # NoUrl
            /\ link_params.parent_mirror # NoUrl
            /\ ~StartsWith(FileScheme, link_params.parent_loc))
               => /\ HasLine(links.queries, link_params.parent_mirror)
                  /\ (LayoutComplete
                      /\ Contains(SlashSvnSlash, link_params.parent_loc))
                         => links.parent_link =
                                Reconstructed(link_params.parent_loc)

-----------------------------------------------------------------------------
(* Project.convert_to_mirror on a table in which the URL of one project    *)
(* is the beginning of the URL of another.                                 *)

UmAuxX ==
    <<"u", "m", "_", "a", "u", "x", ".", "x">>
UmAuxXm ==
    <<"u", "m", "_", "a", "u", "x", ".", "x", "m">>
UmAuxSrsUrl ==
    <<"h", "t", "t", "p", "s", ":", "/", "/", "c", "o", "d", "e", ".", "m",
      "o", "/", "s", "v", "n", "/", "u", "m", "_", "a", "u", "x">>
UmAuxMirrorUrl ==
    <<"s", "v", "n", ":", "/", "/", "f", "c", "m", "1", "/", "u", "m", "_",
      "a", "u", "x", ".", "x", "m", "_", "s", "v", "n">>

AuxTablePool ==
    { <<UmX, UmSrsUrl>>, <<UmXm, UmMirrorUrl>>,
      <<UmAuxX, UmAuxSrsUrl>>, <<UmAuxXm, UmAuxMirrorUrl>> }

RECURSIVE AuxTablesOfLen(_)
AuxTablesOfLen(n) ==
    IF n = 0 THEN { <<>> }
    ELSE { Append(t, e) : t \in AuxTablesOfLen(n - 1), e \in AuxTablePool }

AuxTables ==
    { t \in UNION { AuxTablesOfLen(n) : n \in 0..MaxTable } : NoDuplicate(t) }

AuxUrls ==
    { h \o t : h \in { UmSrsUrl, UmAuxSrsUrl, WorkingCopy },
               t \in { SlashTrunk, SlashTrunk \o Pin, BranchPath \o Pin } }
        \cup { h \o t : h \in { FcmColon \o UmX, FcmColon \o UmAuxX },
                         t \in { SufTr, SufBr \o BranchPath } }

MirrorInit ==
    /\ urls \in AuxTables
    /\ url0 \in AuxUrls
    /\ url = url0
    /\ ops = <<>>

MirrorNext == ToMirror

\* The same dictionary with its entries in another order.
Reordered(K) ==
    { t \in [1..Len(K) -> { K[i] : i \in 1..Len(K) }] : NoDuplicate(t) }

\* The entries convert_to_mirror can substitute in the location: those whose
\* URL or keyword is in it and whose mirror counterpart is in the table.
Substitutable(K, u) ==
    { i \in 1..Len(K) :
        /\ InTable(K, Append(K[i][1], "m"))
        /\ Contains(K[i][2], u) \/ Contains(K[i][1], u) }

\* The text of entry i found in the location.
Matched(K, i, u) == IF Contains(K[i][2], u) THEN K[i][2] ELSE K[i][1]

\* The substitution of entry i alone.
SubstituteEntry(K, i, u) ==
    IF Contains(K[i][2], u)
    THEN SubOnce(K[i][2], Lookup(K, Append(K[i][1], "m")), u)
    ELSE SubOnce(K[i][1], Append(K[i][1], "m"), u)

\* C17: convert_to_mirror replaces the longest of the public keywords and
\* URL fragments of the table that match the location, whatever the order
\* of the entries of the table.
C17_LongestMatch ==
    ops = <<"mirror">> =>
        /\ \A K \in Reordered(urls) : convert_to_mirror(K, url0) = url
        /\ \A i \in Substitutable(urls, url0) :
               (\A j \in Substitutable(urls, url0) :
                    Len(Matched(urls, j, url0)) <= Len(Matched(urls, i, url0)))
                   => url = SubstituteEntry(urls, i, url0)

-----------------------------------------------------------------------------
(* The failed rose_ana tasks of generate_task_table.                       *)

\* The failed rose_ana tasks that the loop does not skip.
ClassifiedRoseAnaFails ==
    { t \in DOMAIN data :
        /\ Contains(RoseAna, t)
        /\ Contains(Failed, data[t])
        /\ ~Contains(Succeeded, data[t])
        /\ HiddenCategory(t, data[t], verbosity, only_common_groups) = "" }

\* How often the task is in the list.
Occurrences(list, t) == Cardinality({ i \in 1..Len(list) : list[i] = t })

\* C18: a failed rose_ana task that the loop classifies is either counted
\* once as a pink failure, its name holding one or more of the sensitive
\* substrings, or put once on the list of failed configurations, its name
\* holding none; never both and never neither.
C18_FlaggedOrFailedConfig ==
    tpc = "done" =>
        /\ CountOf(status_counts, PINK_FAIL_TEXT) =
               Cardinality({ t \in ClassifiedRoseAnaFails : IsSensitive(t) })
        /\ \A t \in ClassifiedRoseAnaFails :
               /\ IsSensitive(t) =>
                      /\ Occurrences(failed_configs, t) = 0
                      /\ HasRow(t, "pink")
               /\ ~IsSensitive(t) =>
                      /\ Occurrences(failed_configs, t) = 1
                      /\ ~HasRow(t, "pink")
        /\ \A i \in 1..Len(failed_configs) :
               failed_configs[i] \in ClassifiedRoseAnaFails

\* A failed rose_ana task whose name holds two sensitive substrings, next to
\* one whose name holds none.
C18_Witness ==
    /\ tpc = "done"
    /\ TaskRoseAnaOmp \in ClassifiedRoseAnaFails
    /\ Contains(HlVs, TaskRoseAnaOmp) /\ Contains(HlAtmosOmp, TaskRoseAnaOmp)
    /\ TaskRoseAnaMule \in ClassifiedRoseAnaFails
    /\ ~IsSensitive(TaskRoseAnaMule)
    /\ failed_configs = <<TaskRoseAnaMule>>
    /\ CountOf(status_counts, PINK_FAIL_TEXT) = 1

-----------------------------------------------------------------------------
(* The tasks generate_task_table leaves out of the itemized table.         *)

\* The task has no row.
Omitted(t) == \A i \in 1..Len(task_table) : task_table[i][1] # t

\* Every run-group of the suite is in the common groups of its site.
AllGroupsCommon ==
    \A i \in 1..Len(groups) :
        /\ site \in DOMAIN COMMON_GROUPS
        /\ StripSpaces(groups[i]) \in COMMON_GROUPS[site]

\* The suite is a meto suite that runs the group "all".
MetoRunsAll == site = "meto" /\ InGroups(GroupAll, groups)

\* The condition of omission, for a given reading of "common groups only".
OmissionCondition(t, common) ==
    \/ StartsWith(Housekeep, t) /\ verbosity >= 1
    \/ StartsWith(Gatekeeper, t) /\ verbosity >= 2
    \/ StartsWith(Monitor, t)
    \/ /\ Contains(Succeeded, data[t])
       /\ verbosity >= 4 \/ (verbosity >= 3 /\ common)

\* Every task without a row is in the tally of its state, and the tally
\* numbers the tasks.
OmittedAreTallied ==
    /\ Total(status_counts) = NumTasks
    /\ \A s \in TaskStates :
           CountOf(status_counts, s) >=
               Cardinality({ t \in DOMAIN data : Omitted(t) /\ data[t] = s })

-----------------------------------------------------------------------------
(* Project.get_ticket_number.                                              *)

LogTicket ==
    <<"#", "1", "2", "3", ":", " ", "f", "i", "x", " ", "t", "h", "e", " ",
      "t", "h", "i", "n", "g">>
LogTicketIndented ==
    <<" ", " ", "#", "4", "5", " ", "t", "i", "d", "y">>
LogPlain ==
    <<"f", "i", "x", " ", "#", "7", " ", "i", "n", " ", "p", "a", "s", "s",
      "i", "n", "g">>
TicketLong ==
    <<"#", "1", "2", "3">>
TicketShort ==
    <<"#", "4", "5">>

Digits == { "0", "1", "2", "3", "4", "5", "6", "7", "8", "9" }

\* \w
WordChars == (RangeAz \ { "[", "]", "^" }) \cup Digits

\* [/@$]: a class of three characters, the dollar sign being one of them.
TrunkEndClass == { "/", "@", "$" }

\* The same class with the end of the text standing for the dollar sign.
TrunkEndAtEndOfText(s, i) == i > Len(s) \/ s[i] \in { "/", "@" }

\* What must follow "/trunk" or "_tr" at position i of the text.
TrunkEnd(s, i) == i <= Len(s) /\ s[i] \in TrunkEndClass

\* re.search("/trunk[/@$]", s)
SearchTrunkPath(s) ==
    \E i \in 1..Len(s) :
        LitAt(SlashTrunk, s, i) /\ TrunkEnd(s, i + Len(SlashTrunk))

\* (.xm|.x|)_tr[/@$] matched at position k.
KeywordTail(s, k) ==
    \E skip \in { 0, 2, 3 } :
        /\ skip = 2 => (k + 1 <= Len(s) /\ s[k + 1] = "x")
        /\ skip = 3 => (k + 2 <= Len(s) /\ s[k + 1] = "x" /\ s[k + 2] = "m")
        /\ LitAt(SufTr, s, k + skip)
        /\ TrunkEnd(s, k + skip + Len(SufTr))

\* re.search(r"[fs][cv][mn]:\w+(.xm|.x|)_tr[/@$]", s)
SearchTrunkKeyword(s) ==
    \E i \in 1..Len(s) :
        /\ i + 4 <= Len(s)
        /\ s[i] \in { "f", "s" }
        /\ s[i + 1] \in { "c", "v" }
        /\ s[i + 2] \in { "m", "n" }
        /\ s[i + 3] = ":"
        /\ \E k \in (i + 5)..(Len(s) + 1) :
               /\ \A j \in (i + 4)..(k - 1) : s[j] \in WordChars
               /\ KeywordTail(s, k)

\* re.search(r"^\s*(#\d+)", line): [found, number]
TicketIn(line) ==
    LET body == StripBlanks(line)
        n == IF Len(body) >= 2 /\ body[1] = "#"
             THEN CHOOSE k \in 1..Len(body) :
                      /\ \A j \in 2..k : body[j] \in Digits
                      /\ k = Len(body) \/ body[k + 1] \notin Digits
             ELSE 1
    IN  IF n >= 2 THEN [found |-> TRUE, number |-> SubSeq(body, 1, n)]
        ELSE [found |-> FALSE, number |-> <<>>]

\* The loop over the lines of the log: the last ticket found stays.
RECURSIVE TicketLoop(_, _, _)
TicketLoop(lines, i, acc) ==
    IF i > Len(lines) THEN acc
    ELSE LET result == TicketIn(lines[i])
         IN  TicketLoop(lines, i + 1,
                        IF result.found
                        THEN [none |-> FALSE, number |-> result.number]
                        ELSE acc)

NoTicket == [none |-> TRUE, number |-> <<>>]

\* get_ticket_number: [ticket, queries, raised]
get_ticket_number(mirror_url, reply) ==
    IF SearchTrunkPath(mirror_url) \/ SearchTrunkKeyword(mirror_url)
    THEN [ticket |-> NoTicket, queries |-> <<>>, raised |-> FALSE]
    ELSE IF reply.raises
    THEN [ticket |-> NoTicket, queries |-> <<mirror_url>>, raised |-> TRUE]
    ELSE [ticket |-> TicketLoop(reply.stdout, 1, NoTicket),
          queries |-> <<mirror_url>>, raised |-> FALSE]

\* What `fcm log -l 1` answers.
LogReplies ==
    { [raises |-> TRUE, stdout |-> <<>>],
      [raises |-> FALSE, stdout |-> <<<<>>>>],
      [raises |-> FALSE, stdout |-> <<LogPlain, <<>>>>],
      [raises |-> FALSE, stdout |-> <<LogTicket, <<>>>>],
      [raises |-> FALSE, stdout |-> <<LogTicket, LogTicketIndented, <<>>>>] }

TicketInit ==
    /\ ticket_url \in { convert_to_mirror(ProjectUrls, u) : u \in Targets }
    /\ log_reply \in LogReplies
    /\ ticket = NoTicket
    /\ log_queries = <<>>
    /\ kpc = "start"

TicketIdle ==
    /\ ticket_url = <<>>
    /\ log_reply = <<>>
    /\ ticket = <<>>
    /\ log_queries = <<>>
    /\ kpc = "idle"

ticket_number ==
    /\ kpc = "start"
    /\ LET got == get_ticket_number(ticket_url, log_reply)
       IN  /\ ticket' = got.ticket
           /\ log_queries' = got.queries
           /\ kpc' = IF got.raised THEN "raised" ELSE "returned"
    /\ UNCHANGED <<ticket_url, log_reply, restOfTicket>>

TicketNext == ticket_number

\* The location names a trunk: "/trunk" as a component of the path, or the
\* trunk keyword of a project, with a "/", a "@" or nothing after it.
TrunkLocation(s) ==
    \/ \E i \in 1..Len(s) :
           /\ LitAt(SlashTrunk, s, i)
           /\ TrunkEndAtEndOfText(s, i + Len(SlashTrunk))
    \/ /\ StartsWith(FcmColon, s)
       /\ \E i \in 1..Len(s) :
              LitAt(SufTr, s, i) /\ TrunkEndAtEndOfText(s, i + Len(SufTr))

\* C20: for every mirror URL that names a trunk, one that ends in "/trunk"
\* included, get_ticket_number returns None and runs no log query.
C20_TrunkHasNoTicket ==
    (kpc # "start" /\ TrunkLocation(ticket_url)) =>
        /\ kpc = "returned"
        /\ ticket.none
        /\ log_queries = <<>>

-----------------------------------------------------------------------------
(* CylcVersion: the three paths derived from the run directory.            *)

PROCESSED_SUITE_RC_CYLC7 ==
    <<"s", "u", "i", "t", "e", ".", "r", "c", ".", "p", "r", "o", "c", "e",
      "s", "s", "e", "d">>
ROSE_SUITE_RUN_CONF_CYLC7 ==
    <<"r", "o", "s", "e", "-", "s", "u", "i", "t", "e", "-", "r", "u", "n",
      ".", "c", "o", "n", "f">>
ROSE_SUITE_RUN_CONF_CYLC8 ==
    <<"-", "r", "o", "s", "e", "-", "s", "u", "i", "t", "e", ".", "c", "o",
      "n", "f">>
SUITE_DB_FILENAME_CYLC7 ==
    <<"c", "y", "l", "c", "-", "s", "u", "i", "t", "e", ".", "d", "b">>
SUITE_DB_FILENAME_CYLC8 ==
    <<"d", "b">>
RoseSuiteConfFile ==
    <<"0", "1", "-", "r", "o", "s", "e", "-", "s", "u", "i", "t", "e", ".",
      "c", "o", "n", "f">>
FlowProcessedFile ==
    <<"f", "l", "o", "w", "-", "p", "r", "o", "c", "e", "s", "s", "e", "d",
      ".", "c", "y", "l", "c">>
ArchiveDir ==
    <<"a", "r", "c", "h", "i", "v", "e">>

MaxEntries == 2

\* What a directory of the run can hold: [name, is_file].
ConfigEntryPool ==
    { [name |-> RoseSuiteConfFile, is_file |-> TRUE],
      [name |-> FlowProcessedFile, is_file |-> TRUE],
      [name |-> ArchiveDir, is_file |-> FALSE] }

RECURSIVE ConfigListingsOfLen(_)
ConfigListingsOfLen(n) ==
    IF n = 0 THEN { <<>> }
    ELSE { Append(l, e) : l \in ConfigListingsOfLen(n - 1),
                          e \in ConfigEntryPool }

\* os.listdir(log/config), in the order the system gives.
ConfigListings ==
    { l \in UNION { ConfigListingsOfLen(n) : n \in 0..MaxEntries } :
          NoDuplicate(l) }

EndsWith(lit, s) ==
    Len(lit) <= Len(s) /\ LitAt(lit, s, Len(s) - Len(lit) + 1)

\* A result: the path as <<directory, name>>, or the exception raised.
Found(dir, name) == [path |-> <<dir, name>>, raised |-> None]

Raised(exception) == [path |-> <<>>, raised |-> exception]

\* path.stat() on a name of a directory given as a set of names.
Stat(dir, name, names) ==
    IF name \in names THEN Found(dir, name) ELSE Raised("FileNotFoundError")

NamesOf(listing) == { listing[i].name : i \in 1..Len(listing) }

\* The loop of suiterc_processed_path over the listing: the value of path
\* when the loop breaks or ends, 0 standing for None.
RECURSIVE ProcessedLoop(_, _, _)
ProcessedLoop(listing, i, last) ==
    IF i > Len(listing) THEN last
    ELSE IF /\ listing[i].is_file
            /\ Contains(ROSE_SUITE_RUN_CONF_CYLC8, listing[i].name)
    THEN i
    ELSE ProcessedLoop(listing, i + 1, i)

suiterc_processed_path(version, root, listing) ==
    IF version = 7
    THEN Stat("cylc_path", PROCESSED_SUITE_RC_CYLC7, root)
    ELSE LET k == ProcessedLoop(listing, 1, 0)
         IN  IF k = 0 THEN Raised("AttributeError")
             ELSE Stat("cylc_config", listing[k].name, NamesOf(listing))

\* The first name the glob "*-rose-suite.conf" yields, 0 when there is none.
FirstGlob(listing) ==
    IF \E i \in 1..Len(listing) :
           EndsWith(ROSE_SUITE_RUN_CONF_CYLC8, listing[i].name)
    THEN CHOOSE i \in 1..Len(listing) :
             /\ EndsWith(ROSE_SUITE_RUN_CONF_CYLC8, listing[i].name)
             /\ \A j \in 1..(i - 1) :
                    ~EndsWith(ROSE_SUITE_RUN_CONF_CYLC8, listing[j].name)
    ELSE 0

rose_suite_run_path(version, log_names, listing) ==
    IF version = 7
    THEN Stat("cylc_log", ROSE_SUITE_RUN_CONF_CYLC7, log_names)
    ELSE LET k == FirstGlob(listing)
         IN  IF k = 0 THEN Raised("FileNotFoundError")
             ELSE Stat("cylc_config", listing[k].name, NamesOf(listing))

database_path(version, root, log_names) ==
    IF version = 7
    THEN Stat("cylc_path", SUITE_DB_FILENAME_CYLC7, root)
    ELSE Stat("cylc_log", SUITE_DB_FILENAME_CYLC8, log_names)

\* CylcVersion.__init__: version 8 when log/config is a directory.
CylcInit ==
    /\ cylc_version \in { 7, 8 }
    /\ cylc_root \in SUBSET { PROCESSED_SUITE_RC_CYLC7, SUITE_DB_FILENAME_CYLC7 }
    /\ cylc_log \in SUBSET { ROSE_SUITE_RUN_CONF_CYLC7, SUITE_DB_FILENAME_CYLC8 }
    /\ cylc_config \in IF cylc_version = 8 THEN ConfigListings ELSE { <<>> }
    /\ cylc_asked = "nothing"
    /\ cylc_result = Raised(None)

CylcIdle ==
    /\ cylc_version = 8
    /\ cylc_root = {}
    /\ cylc_log = {}
    /\ cylc_config = <<>>
    /\ cylc_asked = "idle"
    /\ cylc_result = <<>>

get_suiterc_processed_path ==
    /\ cylc_asked = "nothing"
    /\ cylc_asked' = "processed"
    /\ cylc_result' = suiterc_processed_path(cylc_version, cylc_root, cylc_config)
    /\ UNCHANGED <<cylc_version, cylc_root, cylc_log, cylc_config, restOfCylc>>

get_rose_suite_run_path ==
    /\ cylc_asked = "nothing"
    /\ cylc_asked' = "run"
    /\ cylc_result' = rose_suite_run_path(cylc_version, cylc_log, cylc_config)
    /\ UNCHANGED <<cylc_version, cylc_root, cylc_log, cylc_config, restOfCylc>>

get_database_path ==
    /\ cylc_asked = "nothing"
    /\ cylc_asked' = "database"
    /\ cylc_result' = database_path(cylc_version, cylc_root, cylc_log)
    /\ UNCHANGED <<cylc_version, cylc_root, cylc_log, cylc_config, restOfCylc>>

CylcNext ==
    \/ get_suiterc_processed_path
    \/ get_rose_suite_run_path
    \/ get_database_path

\* The files the three paths stand for, as <<directory, name>> pairs: in
\* the layout of version 8 the two configurations are files of log/config
\* with "-rose-suite.conf" in their name.
Corresponding(asked) ==
    IF asked = "database"
    THEN IF cylc_version = 7
         THEN { <<"cylc_path", n>> : n \in cylc_root \cap { SUITE_DB_FILENAME_CYLC7 } }
         ELSE { <<"cylc_log", n>> : n \in cylc_log \cap { SUITE_DB_FILENAME_CYLC8 } }
    ELSE IF cylc_version = 7
    THEN IF asked = "processed"
         THEN { <<"cylc_path", n>> : n \in cylc_root \cap { PROCESSED_SUITE_RC_CYLC7 } }
         ELSE { <<"cylc_log", n>> : n \in cylc_log \cap { ROSE_SUITE_RUN_CONF_CYLC7 } }
    ELSE { <<"cylc_config", cylc_config[i].name>> :
               i \in { k \in 1..Len(cylc_config) :
                         /\ cylc_config[k].is_file
                         /\ Contains(ROSE_SUITE_RUN_CONF_CYLC8,
                                     cylc_config[k].name) } }

\* C21: each of the three paths raises a not-found error when its file is
\* not in the run directory, in both layouts, and a path that is returned is
\* the path of that file.
C21_NotFoundWhenAbsent ==
    cylc_asked \in { "processed", "run", "database" } =>
        /\ Corresponding(cylc_asked) = {}
               => cylc_result.raised = "FileNotFoundError"
        /\ cylc_result.raised = None
               => cylc_result.path \in Corresponding(cylc_asked)

-----------------------------------------------------------------------------
(* CylcVersion._cylc8_project_details: the projects of vcs.json.           *)

prefix_mosrs ==
    <<"h", "t", "t", "p", "s", ":", "/", "/", "c", "o", "d", "e", ".", "m",
      "e", "t", "o", "f", "f", "i", "c", "e", ".", "g", "o", "v", ".", "u",
      "k", "/", "s", "v", "n", "/">>
prefix_svn ==
    <<"s", "v", "n", ":", "/", "/", "f", "c", "m", "1", "/">>
BranchesWord ==
    <<"b", "r", "a", "n", "c", "h", "e", "s">>
TrunkWord ==
    <<"t", "r", "u", "n", "k">>
VcsTrunk ==
    <<"h", "t", "t", "p", "s", ":", "/", "/", "c", "o", "d", "e", ".", "m",
      "e", "t", "o", "f", "f", "i", "c", "e", ".", "g", "o", "v", ".", "u",
      "k", "/", "s", "v", "n", "/", "u", "m", "/", "m", "a", "i", "n", "/",
      "t", "r", "u", "n", "k">>
VcsTrunkSlash ==
    <<"h", "t", "t", "p", "s", ":", "/", "/", "c", "o", "d", "e", ".", "m",
      "e", "t", "o", "f", "f", "i", "c", "e", ".", "g", "o", "v", ".", "u",
      "k", "/", "s", "v", "n", "/", "u", "m", "/", "m", "a", "i", "n", "/",
      "t", "r", "u", "n", "k", "/">>
VcsTrunkPath ==
    <<"h", "t", "t", "p", "s", ":", "/", "/", "c", "o", "d", "e", ".", "m",
      "e", "t", "o", "f", "f", "i", "c", "e", ".", "g", "o", "v", ".", "u",
      "k", "/", "s", "v", "n", "/", "u", "m", "/", "m", "a", "i", "n", "/",
      "t", "r", "u", "n", "k", "/", "s", "r", "c">>
VcsBranch ==
    <<"h", "t", "t", "p", "s", ":", "/", "/", "c", "o", "d", "e", ".", "m",
      "e", "t", "o", "f", "f", "i", "c", "e", ".", "g", "o", "v", ".", "u",
      "k", "/", "s", "v", "n", "/", "u", "m", "/", "m", "a", "i", "n", "/",
      "b", "r", "a", "n", "c", "h", "e", "s", "/", "d", "e", "v", "/", "u",
      "s", "e", "r", "/", "b", "1">>
VcsBranchPath ==
    <<"h", "t", "t", "p", "s", ":", "/", "/", "c", "o", "d", "e", ".", "m",
      "e", "t", "o", "f", "f", "i", "c", "e", ".", "g", "o", "v", ".", "u",
      "k", "/", "s", "v", "n", "/", "u", "m", "/", "m", "a", "i", "n", "/",
      "b", "r", "a", "n", "c", "h", "e", "s", "/", "d", "e", "v", "/", "u",
      "s", "e", "r", "/", "b", "1", "/", "s", "r", "c">>
VcsMirrorBranch ==
    <<"s", "v", "n", ":", "/", "/", "f", "c", "m", "1", "/", "j", "u", "l",
      "e", "s", ".", "x", "m", "_", "s", "v", "n", "/", "m", "a", "i", "n",
      "/", "b", "r", "a", "n", "c", "h", "e", "s", "/", "d", "e", "v", "/",
      "u", "s", "e", "r", "/", "b", "2">>
VcsRevision ==
    <<"1", "2">>
StatusModified ==
    <<"M", " ", "s", "r", "c", "/", "a", ".", "F", "9", "0">>
StatusUntracked ==
    <<"?", " ", "n", "e", "w", ".", "t", "x", "t">>
ProjectUM ==
    <<"U", "M">>
ProjectJULES ==
    <<"J", "U", "L", "E", "S">>

\* str.upper()
UpperChar(c) ==
    IF \E i \in 1..Len(LowerCase) : LowerCase[i] = c
    THEN UpperCase[CHOOSE i \in 1..Len(LowerCase) : LowerCase[i] = c]
    ELSE c

Upper(s) == [i \in 1..Len(s) |-> UpperChar(s[i])]

\* re.split("[/.]", s)[0]
RECURSIVE BeforeSlashOrDot(_)
BeforeSlashOrDot(s) ==
    IF Len(s) = 0 \/ s[1] \in { "/", "." } THEN <<>>
    ELSE <<s[1]>> \o BeforeSlashOrDot(Tail(s))

StripPrefix(prefix, s) ==
    IF StartsWith(prefix, s) THEN SubSeq(s, Len(prefix) + 1, Len(s)) ELSE s

\* The name of the project of a URL.
ProjectOfUrl(u) ==
    Upper(BeforeSlashOrDot(StripPrefix(prefix_svn, StripPrefix(prefix_mosrs, u))))

NoProjects == [none |-> TRUE, project |-> <<>>, repo_loc |-> <<>>]

\* The "repo loc" of the URL of vcs.json: [repo_loc, raised].  The unpacking
\* of url.split(sep, 1) needs the separator to be in the URL, and a branch
\* needs three components after it.
RepoLocOfVcs(u, ending) ==
    LET splitter == IF Contains(BranchesWord, u) THEN BranchesWord ELSE TrunkWord
        sep == <<"/">> \o splitter \o <<"/">>
    IN  IF ~Contains(sep, u) THEN [repo_loc |-> <<>>, raised |-> "ValueError"]
        ELSE LET start_url == SubSeq(u, 1, Find(sep, u) + Len(sep) - 1)
                 end_url == Split(AfterFirst(sep, u))
             IN  IF splitter = BranchesWord
                 THEN IF Len(end_url) < 3
                      THEN [repo_loc |-> <<>>, raised |-> "IndexError"]
                      ELSE [repo_loc |-> start_url \o end_url[1] \o <<"/">>
                                           \o end_url[2] \o <<"/">>
                                           \o end_url[3] \o ending,
                            raised |-> None]
                 ELSE [repo_loc |-> start_url \o ending, raised |-> None]

\* The status items that count as uncommitted changes.
Uncommitted(status) ==
    Cardinality({ i \in 1..Len(status) :
                    Len(status[i]) > 0 /\ ~StartsWith(<<"?">>, status[i]) })

\* _cylc8_project_details: [projects, uncommitted_changes, raised]
_cylc8_project_details(doc) ==
    IF ~(doc.has_url /\ doc.has_revision /\ doc.has_status)
    THEN [projects |-> NoProjects, uncommitted_changes |-> 0,
          raised |-> "KeyError"]
    ELSE IF doc.url = NoUrl
    THEN [projects |-> NoProjects,
          uncommitted_changes |-> Uncommitted(doc.status), raised |-> None]
    ELSE LET ending == IF doc.revision = NoUrl THEN <<>>
                       ELSE <<"@">> \o doc.revision
             loc == RepoLocOfVcs(doc.url, ending)
         IN  IF loc.raised # None
             THEN [projects |-> NoProjects, uncommitted_changes |-> 0,
                   raised |-> loc.raised]
             ELSE [projects |-> [none |-> FALSE,
                                 project |-> ProjectOfUrl(doc.url),
                                 repo_loc |-> loc.repo_loc],
                   uncommitted_changes |-> Uncommitted(doc.status),
                   raised |-> None]

MaxStatus == 2

StatusPool == { StatusModified, StatusUntracked, <<>> }

RECURSIVE StatusListsOfLen(_)
StatusListsOfLen(n) ==
    IF n = 0 THEN { <<>> }
    ELSE { Append(l, e) : l \in StatusListsOfLen(n - 1), e \in StatusPool }

VcsUrls ==
    { NoUrl, VcsTrunk, VcsTrunkSlash, VcsTrunkPath, VcsBranch, VcsBranchPath,
      VcsMirrorBranch }

\* The documents cylc writes to log/version/vcs.json.
VcsDocuments ==
    [ has_url : BOOLEAN, has_revision : BOOLEAN, has_status : BOOLEAN,
      url : VcsUrls, revision : { NoUrl, VcsRevision },
      status : UNION { StatusListsOfLen(n) : n \in 0..MaxStatus } ]

VcsInit ==
    /\ vcs_data \in VcsDocuments
    /\ vcs_details = <<>>
    /\ vpc = "start"

VcsIdle ==
    /\ vcs_data = <<>>
    /\ vcs_details = <<>>
    /\ vpc = "idle"

project_details ==
    /\ vpc = "start"
    /\ vcs_details' = _cylc8_project_details(vcs_data)
    /\ vpc' = IF vcs_details'.raised = None THEN "returned" ELSE "raised"
    /\ UNCHANGED <<vcs_data, restOfVcs>>

VcsNext == project_details

\* C22: for a document with the url, revision and status keys
\* project_details returns and raises nothing, whatever the values: a null
\* url gives no project, a null revision gives a location without a pin.
C22_ReturnsForEveryDocument ==
    (vpc # "start" /\ vcs_data.has_url /\ vcs_data.has_revision
       /\ vcs_data.has_status) =>
        /\ vpc = "returned"
        /\ vcs_details.raised = None
        /\ vcs_data.url = NoUrl <=> vcs_details.projects.none
        /\ (vcs_data.url # NoUrl /\ vcs_data.revision = NoUrl)
               => ~HasChar("@", vcs_details.projects.repo_loc)

-----------------------------------------------------------------------------
(* SuiteReport.generate_owner_dictionary: the parsing of the owners file.  *)

OpenMarker ==
    <<"{", "{", "{">>
CloseMarker ==
    <<"}", "}", "}">>
OwnerWord ==
    <<"O", "w", "n", "e", "r">>
ConfigurationWord ==
    <<"C", "o", "n", "f", "i", "g", "u", "r", "a", "t", "i", "o", "n">>
CodeHeader ==
    <<"S", "e", "c", "t", "i", "o", "n", " ", "O", "w", "n", "e", "r", " ",
      "D", "e", "p", "u", "t", "y">>
ConfigHeader ==
    <<"C", "o", "n", "f", "i", "g", "u", "r", "a", "t", "i", "o", "n", " ",
      "O", "w", "n", "e", "r", " ", "O", "t", "h", "e", "r", "s">>
LineFull ==
    <<"u", "m", "_", "a", " ", "a", "l", " ", "b", "o">>
LineNoOthers ==
    <<"u", "m", "_", "b", " ", "c", "y">>
LineDash ==
    <<"u", "m", "_", "c", " ", "d", "i", " ", "-", "-">>
LineSectionOnly ==
    <<"u", "m", "_", "d">>
LineBlanks ==
    <<" ">>
LineUpperSection ==
    <<"U", "M", "_", "A", " ", "e", "d">>
LineSysTeam ==
    <<"u", "m", "_", "e", " ", "u", "m", "s", "y", "s", "t", "e", "a", "m">>
LineNamedOwner ==
    <<"u", "m", "_", "f", " ", "M", "c", "O", "w", "n", "e", "r">>
UmsysteamWord ==
    <<"u", "m", "s", "y", "s", "t", "e", "a", "m">>
UmsysteamAddress ==
    <<"!", "u", "m", "s", "y", "s", "t", "e", "a", "m", "@", "m", "e", "t",
      "o", "f", "f", "i", "c", "e", ".", "g", "o", "v", ".", "u", "k">>
DashDash ==
    <<"-", "-">>

\* line.split(): the fields between the blanks of the line.
RECURSIVE FieldsFrom(_, _, _)
FieldsFrom(s, i, field) ==
    IF i > Len(s) THEN IF field = <<>> THEN <<>> ELSE <<field>>
    ELSE IF s[i] = " "
    THEN (IF field = <<>> THEN <<>> ELSE <<field>>) \o FieldsFrom(s, i + 1, <<>>)
    ELSE FieldsFrom(s, i + 1, Append(field, s[i]))

Fields(line) == FieldsFrom(line, 1, <<>>)

\* The word that tells the header line, by mode.
SepOf(mode) == IF mode = "config" THEN ConfigurationWord ELSE OwnerWord

\* The body of the "if" that reads an entry: [key, value, raised].
ReadEntry(line) ==
    LET dummy_list == Fields(line)
    IN  IF Len(dummy_list) < 2
        THEN [key |-> <<>>, value |-> <<>>, raised |-> TRUE]
        ELSE [key |-> Lower(dummy_list[1]),
              value |-> <<IF Contains(UmsysteamWord, dummy_list[2])
                          THEN UmsysteamAddress ELSE dummy_list[2],
                          IF Len(dummy_list) < 3 \/ dummy_list[3] = DashDash
                          THEN <<>> ELSE dummy_list[3]>>,
              raised |-> FALSE]

\* d.update({key: value})
Update(d, key, value) ==
    [k \in DOMAIN d \cup { key } |-> IF k = key THEN value ELSE d[k]]

\* The loop over the lines of the file from line i on:
\* [owners_dict, raised].  A line is given without its newline.
RECURSIVE OwnersLoop(_, _, _, _, _)
OwnersLoop(lines, i, sep, inside_listing, owners_dict) ==
    IF i > Len(lines) THEN [owners_dict |-> owners_dict, raised |-> None]
    ELSE IF Contains(OpenMarker, lines[i])
    THEN OwnersLoop(lines, i + 1, sep, TRUE, owners_dict)
    ELSE IF Contains(CloseMarker, lines[i])
    THEN OwnersLoop(lines, i + 1, sep, FALSE, owners_dict)
    ELSE IF inside_listing /\ lines[i] # <<>> /\ ~Contains(sep, lines[i])
    THEN LET entry == ReadEntry(lines[i])
         IN  IF entry.raised
             THEN [owners_dict |-> owners_dict, raised |-> "IndexError"]
             ELSE OwnersLoop(lines, i + 1, sep, inside_listing,
                             Update(owners_dict, entry.key, entry.value))
    ELSE OwnersLoop(lines, i + 1, sep, inside_listing, owners_dict)

\* generate_owner_dictionary for a file that could be opened.
generate_owner_dictionary(mode, lines) ==
    OwnersLoop(lines, 1, SepOf(mode), FALSE, <<>>)

MaxLines == 2

HeaderOf(mode) == IF mode = "config" THEN ConfigHeader ELSE CodeHeader

\* The lines of the listing of an owners file.
EntryPool ==
    { LineFull, LineNoOthers, LineDash, LineSectionOnly, LineBlanks,
      LineUpperSection, LineSysTeam, LineNamedOwner, <<>> }

RECURSIVE OwnerListingsOfLen(_)
OwnerListingsOfLen(n) ==
    IF n = 0 THEN { <<>> }
    ELSE { Append(l, e) : l \in OwnerListingsOfLen(n - 1), e \in EntryPool }

\* The owners files: text, the opening marker, the header, the listing, the
\* closing marker, text.
OwnersFiles(mode) ==
    { before \o <<OpenMarker, HeaderOf(mode)>> \o listing \o <<CloseMarker>>
          \o after :
        before \in { <<>>, <<LineFull>> },
        listing \in UNION { OwnerListingsOfLen(n) : n \in 0..MaxLines },
        after \in { <<>>, <<LineDash>> } }

ParseInit ==
    /\ owners_mode \in { "code", "config" }
    /\ owners_file \in OwnersFiles(owners_mode)
    /\ owners_table = <<>>
    /\ owners_raised = None
    /\ gpc = "start"

ParseIdle ==
    /\ owners_mode = "code"
    /\ owners_file = <<>>
    /\ owners_table = <<>>
    /\ owners_raised = None
    /\ gpc = "idle"

parse_owners ==
    /\ gpc = "start"
    /\ LET got == generate_owner_dictionary(owners_mode, owners_file)
       IN  /\ owners_table' = got.owners_dict
           /\ owners_raised' = got.raised
           /\ gpc' = IF got.raised = None THEN "returned" ELSE "raised"
    /\ UNCHANGED <<owners_mode, owners_file, restOfParse>>

ParseNext == parse_owners

\* The first line with the marker, 0 when there is none.
FirstLineWith(marker) ==
    IF \E i \in 1..Len(owners_file) : Contains(marker, owners_file[i])
    THEN CHOOSE i \in 1..Len(owners_file) :
             /\ Contains(marker, owners_file[i])
             /\ \A j \in 1..(i - 1) : ~Contains(marker, owners_file[j])
    ELSE 0

\* The lines between the opening and the closing marker that are not the
\* header and hold something.
EntryLines ==
    { i \in (FirstLineWith(OpenMarker) + 1)..(FirstLineWith(CloseMarker) - 1) :
        /\ owners_file[i] # HeaderOf(owners_mode)
        /\ Fields(owners_file[i]) # <<>> }

SectionOf(i) == Lower(Fields(owners_file[i])[1])

OwnerOf(i) == Fields(owners_file[i])[2]

OthersOf(i) ==
    LET f == Fields(owners_file[i])
    IN  IF Len(f) < 3 \/ f[3] = DashDash THEN <<>> ELSE f[3]

\* C24: parsing gives one entry, section to owner and co-owner, for every
\* line between the markers other than the header, the co-owner empty when
\* it is missing or "--"; no line of the listing is skipped and no line
\* outside the markers is taken.
C24_OneEntryPerLine ==
    gpc # "start" =>
        /\ gpc = "returned"
        /\ DOMAIN owners_table = { SectionOf(i) : i \in EntryLines }
        /\ \A i \in EntryLines :
               (\A j \in EntryLines : j > i => SectionOf(j) # SectionOf(i))
                   => /\ owners_table[SectionOf(i)][2] = OthersOf(i)
                      /\ ~Contains(UmsysteamWord, OwnerOf(i))
                             => owners_table[SectionOf(i)][1] = OwnerOf(i)

-----------------------------------------------------------------------------
(* The retries of SuiteReport.export_file and of                           *)
(* Project.get_altered_files_list, one attempt at a time.                  *)

TempName ==
    <<"t", "m", "p", "/", "e", "x", "p", "o", "r", "t", ".", "t", "x", "t">>
OutName ==
    <<"o", "w", "n", "e", "r", "s", ".", "t", "x", "t">>

ExportAttempts == 5

NoPath == [none |-> TRUE, value |-> <<>>]

\* One pass of `for _ in range(5)` in export_file with a loop that runs
\* once more.
ExportAttemptSixTries(ok, attempt, outname) ==
    IF ok THEN [done |-> TRUE, result |-> [none |-> FALSE, value |-> outname]]
    ELSE IF attempt + 1 >= ExportAttempts + 1
    THEN [done |-> TRUE, result |-> NoPath]
    ELSE [done |-> FALSE, result |-> NoPath]

\* One pass of `for _ in range(5)` in export_file: check_output returns
\* (ok) and the path is returned, or it raises CalledProcessError; after
\* the last pass the loop ends and None is returned.
ExportAttempt(ok, attempt, outname) ==
    IF ok THEN [done |-> TRUE, result |-> [none |-> FALSE, value |-> outname]]
    ELSE IF attempt + 1 >= ExportAttempts
    THEN [done |-> TRUE, result |-> NoPath]
    ELSE [done |-> FALSE, result |-> NoPath]

\* One pass of `for attempt in range(5)` in get_altered_files_list, with
\* what follows the loop when the pass leaves it.
BdiffAttempt(ok, attempt, listing) ==
    IF ok
    THEN [done |-> TRUE,
          result |-> [none |-> FALSE,
                      value |-> FilterLoop(RemoveFirst(listing, Dot), 1)]]
    ELSE IF attempt = LastAttempt
    THEN [done |-> TRUE, result |-> [none |-> FALSE, value |-> <<>>]]
    ELSE [done |-> FALSE, result |-> NoPath]

\* outname, after `if outname is None: _, outname = mkstemp(...)`.
OutNameOf(outname) == IF outname = NoUrl THEN TempName ELSE outname

RetryInit ==
    /\ \/ /\ retry_op = "export"
          /\ retry_input \in { OutNameOf(o) : o \in { NoUrl, OutName } }
       \/ /\ retry_op = "bdiff"
          /\ retry_input \in DiffListings
    /\ retry_attempts = 0
    /\ retry_failures = 0
    /\ retry_result = NoPath
    /\ ypc = "loop"

RetryIdle ==
    /\ retry_op = "none"
    /\ retry_input = <<>>
    /\ retry_attempts = 0
    /\ retry_failures = 0
    /\ retry_result = NoPath
    /\ ypc = "idle"

export_attempt ==
    /\ ypc = "loop"
    /\ retry_op = "export"
    /\ \E ok \in BOOLEAN :
           LET got == ExportAttempt(ok, retry_attempts, retry_input)
           IN  /\ retry_attempts' = retry_attempts + 1
               /\ retry_failures' = retry_failures + (IF ok THEN 0 ELSE 1)
               /\ retry_result' = got.result
               /\ ypc' = IF got.done THEN "returned" ELSE "loop"
    /\ UNCHANGED <<retry_op, retry_input, restOfRetry>>

bdiff_attempt ==
    /\ ypc = "loop"
    /\ retry_op = "bdiff"
    /\ \E ok \in BOOLEAN :
           LET got == BdiffAttempt(ok, retry_attempts, retry_input)
           IN  /\ retry_attempts' = retry_attempts + 1
               /\ retry_failures' = retry_failures + (IF ok THEN 0 ELSE 1)
               /\ retry_result' = got.result
               /\ ypc' = IF got.done THEN "returned" ELSE "loop"
    /\ UNCHANGED <<retry_op, retry_input, restOfRetry>>

RetryNext == export_attempt \/ bdiff_attempt

\* What the operation gives when an attempt succeeds, and when none does.
ResultOfSuccess ==
    IF retry_op = "export" THEN [none |-> FALSE, value |-> retry_input]
    ELSE [none |-> FALSE,
          value |-> FilterLoop(RemoveFirst(retry_input, Dot), 1)]

DegradedResult ==
    IF retry_op = "export" THEN NoPath ELSE [none |-> FALSE, value |-> <<>>]

\* C25: the export and the branch diff make at most 5 attempts, stop at
\* the first attempt that succeeds and return its result, and return the
\* degraded result (no path, the empty list) only after the 5th failure in
\* a row.
C25_BoundedRetry ==
    /\ retry_attempts <= 5
    /\ ypc = "loop" => retry_failures = retry_attempts
    /\ ypc = "returned" =>
           \/ /\ retry_failures = retry_attempts - 1
              /\ retry_result = ResultOfSuccess
           \/ /\ retry_failures = 5
              /\ retry_attempts = 5
              /\ retry_result = DegradedResult

\* An export that returns at its third attempt, which succeeds, or a diff
\* of a listing that returns the empty list after five failures.
C25_Witness ==
    /\ ypc = "returned"
    /\ \/ retry_op = "export" /\ retry_attempts = 3 /\ ~retry_result.none
       \/ /\ retry_op = "bdiff"
          /\ retry_failures = 5
          /\ retry_input # <<>>
          /\ retry_result.value = <<>>

-----------------------------------------------------------------------------
(* _dict_merge and JobSources.__iadd__ on dictionaries of job sources.     *)

\* The else branch of the loop of _dict_merge over a dictionary whose
\* values are no dictionaries; None is the string None.
MergeValues(main_dict, addon_dict, force) ==
    [key \in DOMAIN main_dict \cup DOMAIN addon_dict |->
        IF key \notin DOMAIN addon_dict THEN main_dict[key]
        ELSE IF force \/ key \notin DOMAIN main_dict \/ addon_dict[key] # None
        THEN addon_dict[key]
        ELSE main_dict[key]]

\* _dict_merge on dictionaries whose values are dictionaries: the branch
\* `isinstance(value, dict)`, whose recursive call leaves force unset.
_dict_merge(main_dict, addon_dict, force) ==
    [key \in DOMAIN main_dict \cup DOMAIN addon_dict |->
        IF key \notin DOMAIN addon_dict THEN main_dict[key]
        ELSE MergeValues(IF key \in DOMAIN main_dict THEN main_dict[key]
                         ELSE <<>>,
                         addon_dict[key], FALSE)]

ParamKeys == { "tested source", "repo loc" }

ParamValues == { None, "fcm:um.x_tr", "fcm:um.x_br/dev/b" }

\* The parameters of a source, some of them set.
ParamDicts == UNION { [keys -> ParamValues] : keys \in SUBSET ParamKeys }

\* The dictionaries of job sources.
SourceDicts ==
    UNION { [projs -> ParamDicts] : projs \in SUBSET { "UM", "JULES" } }

MergeInit ==
    /\ merge_main \in SourceDicts
    /\ merge_addon \in SourceDicts
    /\ merged = <<>>
    /\ jpc = "start"

MergeIdle ==
    /\ merge_main = <<>>
    /\ merge_addon = <<>>
    /\ merged = <<>>
    /\ jpc = "idle"

\* JobSources.__iadd__
iadd ==
    /\ jpc = "start"
    /\ merged' = _dict_merge(merge_main, merge_addon, FALSE)
    /\ jpc' = "merged"
    /\ UNCHANGED <<merge_main, merge_addon, restOfMerge>>

MergeNext == iadd

\* C26: merging without force, the value that the main dictionary holds
\* for a key of both dictionaries is kept; the add-on value does not
\* replace it.  A value of None in the main dictionary is left out of the
\* statement.
C26_MainHasPriority ==
    jpc = "merged" =>
        \A p \in DOMAIN merge_main \cap DOMAIN merge_addon :
            \A k \in DOMAIN merge_main[p] \cap DOMAIN merge_addon[p] :
                merge_main[p][k] # None => merged[p][k] = merge_main[p][k]

-----------------------------------------------------------------------------
(* nightly_testing/retrigger_nightlies.py: restarting the failed suites    *)
(* and retriggering their failed tasks.                                    *)

NextCylcWord ==
    <<"n", "e", "x", "t", "-", "c", "y", "l", "c">>
SuiteUm ==
    <<"u", "m", "_", "2", "0", "2", "6", "-", "1", "1", "-", "0", "1">>
SuiteNextCylc ==
    <<"n", "e", "x", "t", "-", "c", "y", "l", "c", "_", "u", "m", "_", "2",
      "0", "2", "6", "-", "1", "1", "-", "0", "1">>

MaxRows == 2

\* TestSuite.check_for_failed_tasks: the rows of task_states that are
\* failed or submit-failed, in the order of the table.
RECURSIVE check_for_failed_tasks(_)
check_for_failed_tasks(rows) ==
    IF rows = <<>> THEN <<>>
    ELSE (IF Head(rows).status \in { "failed", "submit-failed" }
          THEN <<Head(rows)>> ELSE <<>>)
         \o check_for_failed_tasks(Tail(rows))

\* TestSuite.__init__ for a suite whose database holds the rows.
TestSuite(suite, rows) ==
    [suite |-> suite, failed_tasks |-> check_for_failed_tasks(rows),
     restarted |-> FALSE]

\* NightlyTesting.find_testsuites over the valid suites found: the suites
\* with a failed task.
RECURSIVE find_testsuites(_)
find_testsuites(valid) ==
    IF valid = <<>> THEN <<>>
    ELSE LET suite == TestSuite(Head(valid).suite, Head(valid).rows)
         IN  (IF Len(suite.failed_tasks) > 0 THEN <<suite>> ELSE <<>>)
             \o find_testsuites(Tail(valid))

\* The loop of main that builds to_restart from the answers given.
RECURSIVE ToRestart(_, _, _)
ToRestart(suites, all, yes) ==
    IF suites = <<>> THEN <<>>
    ELSE (IF ~all /\ Head(suites).suite \notin yes THEN <<>>
          ELSE <<Head(suites).suite>>)
         \o ToRestart(Tail(suites), all, yes)

\* `suite.suite not in to_restart` of NightlyTesting.restart, negated.
IsSelected(suite, selection) ==
    \E i \in 1..Len(selection) : selection[i] = suite

\* The test of main before suite.retrigger, made to pass for every suite.
IsRestartedAlways(suite) == TRUE

\* `if suite.restarted:` of main, before suite.retrigger.
IsRestarted(suite) == suite.restarted

\* The command of TestSuite.restart, as handed to run_command.
PlayCommand(suite) ==
    [verb |-> "play", suite |-> suite, task |-> "",
     next |-> Contains(NextCylcWord, suite)]

\* The command of TestSuite.retrigger for one task.
TriggerCommand(suite, task) ==
    [verb |-> "trigger", suite |-> suite, task |-> task.name,
     next |-> Contains(NextCylcWord, suite)]

TaskRows ==
    { [name |-> "atmos", status |-> "failed"],
      [name |-> "build", status |-> "submit-failed"],
      [name |-> "post", status |-> "succeeded"] }

RECURSIVE RowsOfLen(_)
RowsOfLen(n) ==
    IF n = 0 THEN { <<>> }
    ELSE { Append(l, r) : l \in RowsOfLen(n - 1), r \in TaskRows }

SuiteNames == { SuiteUm, SuiteNextCylc }

\* The row lists of a task_states table.
RowLists == UNION { RowsOfLen(k) : k \in 1..MaxRows }

\* The valid suites of the cylc-run directory, in the order iterdir gives
\* them, with the rows of their task_states tables.
FoundSuites ==
    { <<[suite |-> s, rows |-> r]>> : s \in SuiteNames, r \in RowLists }
    \cup { l \in { <<[suite |-> s, rows |-> r], [suite |-> t, rows |-> q]>> :
                       s \in SuiteNames, t \in SuiteNames,
                       r \in RowLists, q \in RowLists } :
              l[1].suite # l[2].suite }

\* main up to the questions: the suites are found and some have failed.
NightlyInit ==
    /\ suites_found \in { l \in FoundSuites : find_testsuites(l) # <<>> }
    /\ failed_suites = find_testsuites(suites_found)
    /\ dry_run \in BOOLEAN
    /\ run_all \in BOOLEAN
    /\ answers \in SUBSET SuiteNames
    /\ run_all => answers = {}
    /\ to_restart = <<>>
    /\ commands = <<>>
    /\ total_failed_tasks = 0
    /\ nidx = 1
    /\ tidx = 1
    /\ npc = "ask"

NightlyIdle ==
    /\ suites_found = <<>>
    /\ failed_suites = <<>>
    /\ dry_run = FALSE
    /\ run_all = FALSE
    /\ answers = {}
    /\ to_restart = <<>>
    /\ commands = <<>>
    /\ total_failed_tasks = 0
    /\ nidx = 1
    /\ tidx = 1
    /\ npc = "idle"

\* main: the questions and to_restart; SystemExit(1) when it is empty.
select_suites ==
    /\ npc = "ask"
    /\ to_restart' = ToRestart(failed_suites, run_all, answers)
    /\ npc' = IF to_restart' = <<>> THEN "exit" ELSE "restart"
    /\ total_failed_tasks' = 0
    /\ UNCHANGED <<suites_found, failed_suites, dry_run, run_all, answers,
                   commands, nidx, tidx, restOfNightly>>

\* One pass of the loop of NightlyTesting.restart.
restart_suite ==
    /\ npc = "restart"
    /\ nidx <= Len(failed_suites)
    /\ LET suite == failed_suites[nidx]
       IN  IF ~IsSelected(suite.suite, to_restart)
           THEN UNCHANGED <<failed_suites, commands, total_failed_tasks>>
           ELSE /\ commands' = Append(commands, PlayCommand(suite.suite))
                /\ failed_suites' =
                       [failed_suites EXCEPT ![nidx].restarted = TRUE]
                /\ total_failed_tasks' =
                       total_failed_tasks + Len(suite.failed_tasks)
    /\ nidx' = nidx + 1
    /\ UNCHANGED <<suites_found, dry_run, run_all, answers, to_restart, tidx,
                   npc, restOfNightly>>

\* The loop of NightlyTesting.restart ends and main waits for the restart.
wait_for_restart ==
    /\ npc = "restart"
    /\ nidx > Len(failed_suites)
    /\ npc' = "retrigger"
    /\ nidx' = 1
    /\ tidx' = 1
    /\ UNCHANGED <<suites_found, failed_suites, dry_run, run_all, answers,
                   to_restart, commands, total_failed_tasks, restOfNightly>>

\* One pass of the loop of TestSuite.retrigger for a restarted suite.
retrigger_task ==
    /\ npc = "retrigger"
    /\ nidx <= Len(failed_suites)
    /\ IsRestarted(failed_suites[nidx])
    /\ tidx <= Len(failed_suites[nidx].failed_tasks)
    /\ commands' =
           Append(commands,
                  TriggerCommand(failed_suites[nidx].suite,
                                 failed_suites[nidx].failed_tasks[tidx]))
    /\ tidx' = tidx + 1
    /\ UNCHANGED <<suites_found, failed_suites, dry_run, run_all, answers,
                   to_restart, total_failed_tasks, nidx, npc, restOfNightly>>

\* The loop of main over the suites moves on: the suite was not restarted,
\* or its tasks are done.
next_suite ==
    /\ npc = "retrigger"
    /\ nidx <= Len(failed_suites)
    /\ \/ ~IsRestarted(failed_suites[nidx])
       \/ tidx > Len(failed_suites[nidx].failed_tasks)
    /\ nidx' = nidx + 1
    /\ tidx' = 1
    /\ UNCHANGED <<suites_found, failed_suites, dry_run, run_all, answers,
                   to_restart, commands, total_failed_tasks, npc,
                   restOfNightly>>

\* "Retriggering complete"
retriggering_complete ==
    /\ npc = "retrigger"
    /\ nidx > Len(failed_suites)
    /\ npc' = "done"
    /\ UNCHANGED <<suites_found, failed_suites, dry_run, run_all, answers,
                   to_restart, commands, total_failed_tasks, nidx, tidx,
                   restOfNightly>>

NightlyNext ==
    \/ select_suites
    \/ restart_suite
    \/ wait_for_restart
    \/ retrigger_task
    \/ next_suite
    \/ retriggering_complete

\* The places in commands of the trigger commands of a suite for a task.
TriggersOf(suite, task) ==
    { i \in 1..Len(commands) :
        /\ commands[i].verb = "trigger"
        /\ commands[i].suite = suite
        /\ commands[i].task = task }

\* How many rows of the suite's failed tasks name the task.
FailedRowsOf(s, task) ==
    Cardinality({ k \in 1..Len(s.failed_tasks) : s.failed_tasks[k].name = task })

\* The suites the user chose.
Chosen(suite) == run_all \/ suite \in answers

\* C27: a trigger command for a task of a suite is handed to run_command
\* only after the restart command of that suite; when the run completes
\* every restarted suite has one trigger command for each failed or
\* submit-failed row of its table; a suite that was not chosen has no
\* trigger command.
C27_TriggerAfterRestart ==
    /\ \A i \in 1..Len(commands) :
           commands[i].verb = "trigger" =>
               /\ \E j \in 1..(i - 1) :
                      /\ commands[j].verb = "play"
                      /\ commands[j].suite = commands[i].suite
               /\ Chosen(commands[i].suite)
    /\ npc = "done" =>
           \A n \in 1..Len(suites_found) :
               \A row \in TaskRows :
                   Cardinality(TriggersOf(suites_found[n].suite, row.name)) =
                       IF Chosen(suites_found[n].suite)
                           /\ row.status \in { "failed", "submit-failed" }
                       THEN Cardinality({ k \in 1..Len(suites_found[n].rows) :
                                            suites_found[n].rows[k] = row })
                       ELSE 0

\* A run that completes with two failed suites, one chosen and one not,
\* the chosen one with two failed rows.
C27_Witness ==
    /\ npc = "done"
    /\ Len(failed_suites) = 2
    /\ Len(to_restart) = 1
    /\ Len(commands) = 3

-----------------------------------------------------------------------------
(* The specifications.                                                     *)

InitUrl == UrlInit /\ TaskIdle /\ OwnerIdle /\ MainIdle /\ RevIdle /\ GroupIdle /\ DiffIdle /\ LinkIdle /\ TicketIdle /\ CylcIdle /\ VcsIdle /\ ParseIdle /\ RetryIdle /\ MergeIdle /\ NightlyIdle

SpecUrl == InitUrl /\ [][UrlNext]_vars

InitTasks == TaskInit /\ UrlIdle /\ OwnerIdle /\ MainIdle /\ RevIdle /\ GroupIdle /\ DiffIdle /\ LinkIdle /\ TicketIdle /\ CylcIdle /\ VcsIdle /\ ParseIdle /\ RetryIdle /\ MergeIdle /\ NightlyIdle

SpecTasks == InitTasks /\ [][TaskNext]_vars

InitOwners == OwnerInit /\ UrlIdle /\ TaskIdle /\ MainIdle /\ RevIdle /\ GroupIdle /\ DiffIdle /\ LinkIdle /\ TicketIdle /\ CylcIdle /\ VcsIdle /\ ParseIdle /\ RetryIdle /\ MergeIdle /\ NightlyIdle

SpecOwners == InitOwners /\ [][OwnerNext]_vars

InitMain == MainInit /\ UrlIdle /\ TaskIdle /\ OwnerIdle /\ RevIdle /\ GroupIdle /\ DiffIdle /\ LinkIdle /\ TicketIdle /\ CylcIdle /\ VcsIdle /\ ParseIdle /\ RetryIdle /\ MergeIdle /\ NightlyIdle

SpecMain == InitMain /\ [][MainNext]_vars

InitRevisions == RevInit /\ UrlIdle /\ TaskIdle /\ OwnerIdle /\ MainIdle /\ GroupIdle /\ DiffIdle /\ LinkIdle /\ TicketIdle /\ CylcIdle /\ VcsIdle /\ ParseIdle /\ RetryIdle /\ MergeIdle /\ NightlyIdle

SpecRevisions == InitRevisions /\ [][RevNext]_vars

InitGroupTasks == GroupTaskInit /\ OwnerIdle /\ MainIdle /\ RevIdle /\ UrlIdle /\ DiffIdle /\ LinkIdle /\ TicketIdle /\ CylcIdle /\ VcsIdle /\ ParseIdle /\ RetryIdle /\ MergeIdle /\ NightlyIdle

SpecGroupTasks == InitGroupTasks /\ [][GroupTaskNext]_vars

InitDiff == DiffInit /\ TaskIdle /\ OwnerIdle /\ MainIdle /\ RevIdle /\ GroupIdle /\ UrlIdle /\ LinkIdle /\ TicketIdle /\ CylcIdle /\ VcsIdle /\ ParseIdle /\ RetryIdle /\ MergeIdle /\ NightlyIdle

SpecDiff == InitDiff /\ [][DiffNext]_vars

InitMirror == MirrorInit /\ TaskIdle /\ OwnerIdle /\ MainIdle /\ RevIdle /\ GroupIdle /\ DiffIdle /\ LinkIdle /\ TicketIdle /\ CylcIdle /\ VcsIdle /\ ParseIdle /\ RetryIdle /\ MergeIdle /\ NightlyIdle

SpecMirror == InitMirror /\ [][MirrorNext]_vars

InitLinks == LinkInit /\ TaskIdle /\ OwnerIdle /\ MainIdle /\ RevIdle /\ GroupIdle /\ DiffIdle /\ UrlIdle /\ TicketIdle /\ CylcIdle /\ VcsIdle /\ ParseIdle /\ RetryIdle /\ MergeIdle /\ NightlyIdle

SpecLinks == InitLinks /\ [][LinkNext]_vars

InitTicket == TicketInit /\ TaskIdle /\ OwnerIdle /\ MainIdle /\ RevIdle /\ GroupIdle /\ DiffIdle /\ LinkIdle /\ UrlIdle /\ CylcIdle /\ VcsIdle /\ ParseIdle /\ RetryIdle /\ MergeIdle /\ NightlyIdle

SpecTicket == InitTicket /\ [][TicketNext]_vars

InitCylc == CylcInit /\ TaskIdle /\ OwnerIdle /\ MainIdle /\ RevIdle /\ GroupIdle /\ DiffIdle /\ LinkIdle /\ TicketIdle /\ UrlIdle /\ VcsIdle /\ ParseIdle /\ RetryIdle /\ MergeIdle /\ NightlyIdle

SpecCylc == InitCylc /\ [][CylcNext]_vars

InitVcs == VcsInit /\ TaskIdle /\ OwnerIdle /\ MainIdle /\ RevIdle /\ GroupIdle /\ DiffIdle /\ LinkIdle /\ TicketIdle /\ CylcIdle /\ UrlIdle /\ ParseIdle /\ RetryIdle /\ MergeIdle /\ NightlyIdle

SpecVcs == InitVcs /\ [][VcsNext]_vars

InitParse == ParseInit /\ TaskIdle /\ OwnerIdle /\ MainIdle /\ RevIdle /\ GroupIdle /\ DiffIdle /\ LinkIdle /\ TicketIdle /\ CylcIdle /\ VcsIdle /\ UrlIdle /\ RetryIdle /\ MergeIdle /\ NightlyIdle

SpecParse == InitParse /\ [][ParseNext]_vars

InitRetry == RetryInit /\ TaskIdle /\ OwnerIdle /\ MainIdle /\ RevIdle /\ GroupIdle /\ DiffIdle /\ LinkIdle /\ TicketIdle /\ CylcIdle /\ VcsIdle /\ ParseIdle /\ UrlIdle /\ MergeIdle /\ NightlyIdle

SpecRetry == InitRetry /\ [][RetryNext]_vars

InitMerge == MergeInit /\ TaskIdle /\ OwnerIdle /\ MainIdle /\ RevIdle /\ GroupIdle /\ DiffIdle /\ LinkIdle /\ TicketIdle /\ CylcIdle /\ VcsIdle /\ ParseIdle /\ RetryIdle /\ UrlIdle /\ NightlyIdle

SpecMerge == InitMerge /\ [][MergeNext]_vars

InitNightly == NightlyInit /\ TaskIdle /\ OwnerIdle /\ MainIdle /\ RevIdle /\ GroupIdle /\ DiffIdle /\ LinkIdle /\ TicketIdle /\ CylcIdle /\ VcsIdle /\ ParseIdle /\ RetryIdle /\ MergeIdle /\ UrlIdle

SpecNightly == InitNightly /\ [][NightlyNext]_vars

====
